---- MODULE Spec2Model ----
(***************************************************************************)
(* Tile sources of mapmaker (mapmaker/service.py): the file system Cache,  *)
(* the MemoryCache, the network TileService and the Fallback wrapper; the  *)
(* RenderContext that downloads and pastes the tiles (mapmaker/render.py); *)
(* the tile and bounding box arithmetic (mapmaker/tilemap.py, geo.py);     *)
(* the Composer that lays out the decorations (mapmaker/decorations.py).   *)
(*                                                                         *)
(* Strings are sequences of character codes, bytes are sequences of        *)
(* numbers 0..255.  A Python None is a record with isNone/nil set.         *)
(***************************************************************************)
EXTENDS Integers, Sequences, FiniteSets, TLC

VARIABLES
    files,      \* Cache: the files below the base directory
    now,        \* the clock
    cfg,        \* Cache: limit and min_hours
    last,       \* Cache: the last fetch and what it did
    values,     \* MemoryCache._values, first entry first
    msize,      \* MemoryCache._size
    ref,        \* a reference LRU cache fed the same fetches
    mlast,      \* MemoryCache: the last fetch and what it did
    net,        \* Fallback around a TileService: the fetch in progress
    max_retries,\* TileService._max_retries
    rc,         \* RenderContext: its fields, its queue, lock and workers
    geo,        \* tile and bounding box arithmetic: the last call
    cp          \* Composer: margins, frame, decorations and the last call

cacheVars == <<files, now, cfg, last>>

memVars == <<values, msize, ref, mlast>>

netVars == <<net, max_retries>>

rcVars == <<rc>>

geoVars == <<geo>>

cpVars == <<cp>>

vars == <<files, now, cfg, last, values, msize, ref, mlast, net, max_retries,
          rc, geo, cp>>

(***************************************************************************)
(* Bounds of the model.                                                    *)
(***************************************************************************)
\* the clock (hours since the epoch) runs from 1 to MaxTime
MaxTime == 2
\* tiles are 1..MaxDataLen bytes long
MaxDataLen == 2
\* a MemoryCache holds 1..MaxSize tiles
MaxSize == 2
\* a map is 1..MaxX tiles wide and 1..MaxY tiles high
MaxX == 2

MaxY == 2
\* a RenderContext has 1..MaxWorkers parallel downloads
MaxWorkers == 2
\* build() is called at most MaxBuilds times on a RenderContext
MaxBuilds == 2
\* tiles are computed for the zoom levels 0..MaxZoom
MaxZoom == 3
\* a Composer gets at most MaxDecos decorations
MaxDecos == 2
\* a TileService is set up with max_retries in 0..MaxRetries
MaxRetries == 2

(***************************************************************************)
(* Values.                                                                 *)
(***************************************************************************)
None == [isNone |-> TRUE, s |-> <<>>]

Some(s) == [isNone |-> FALSE, s |-> s]

\* Python truth value of an etag: neither None nor ''
Truthy(e) == ~e.isNone /\ e.s # <<>>

NoData == [nil |-> TRUE, b |-> <<>>]

Bytes(b) == [nil |-> FALSE, b |-> b]

\* tile coordinates requested by the callers
Tiles == {[x |-> 1, y |-> 2, z |-> 3], [x |-> 5, y |-> 5, z |-> 5]}

\* etag strings the tile server sends: 'x', 'y', 'xx?'
\* (base64 of 'xx?' is 'eHg/', it holds the path separator)
Tokens == {<<120>>, <<120, 120, 63>>}

\* what a source can answer as the etag: no header, or a token
Etags == {None} \cup {Some(t) : t \in Tokens}

\* the etag argument of a fetch
Args == {None, Some(<<120>>)}

\* tile images, told apart by their length
Datas == {[i \in 1..n |-> 80] : n \in 1..MaxDataLen}

\* Cache(limit=...): 0 stands for None (both are "not self._limit")
Limits == {0, 3}

\* Cache(min_hours=...)
MinHours == {1}

(***************************************************************************)
(* Strings, paths and base64.                                              *)
(***************************************************************************)
\* '%0wd' % n for 0 <= n < 10^w
Fmt(n, w) == [i \in 1..w |-> 48 + ((n \div (10 ^ (w - i))) % 10)]

StartsWith(s, p) == Len(s) >= Len(p) /\ SubSeq(s, 1, Len(p)) = p

RECURSIVE Split(_, _)
\* str.split(c), empty pieces kept
Split(s, c) ==
    IF \A i \in 1..Len(s) : s[i] # c
    THEN <<s>>
    ELSE LET k == CHOOSE i \in 1..Len(s) :
                      s[i] = c /\ \A j \in 1..(i - 1) : s[j] # c
         IN  <<SubSeq(s, 1, k - 1)>> \o Split(SubSeq(s, k + 1, Len(s)), c)

\* pathlib splits a joined name at '/' and drops empty parts
PathParts(s) == SelectSeq(Split(s, 47), LAMBDA p : p # <<>>)

\* str.encode(): UTF-8 of code points below 2048
RECURSIVE encode(_)
encode(s) ==
    IF s = <<>> THEN <<>>
    ELSE (IF s[1] < 128 THEN <<s[1]>>
          ELSE <<192 + (s[1] \div 64), 128 + (s[1] % 64)>>)
         \o encode(Tail(s))

\* the base64 alphabet A-Z a-z 0-9 + /
B64Char(i) ==
    IF i < 26 THEN 65 + i
    ELSE IF i < 52 THEN 97 + (i - 26)
    ELSE IF i < 62 THEN 48 + (i - 52)
    ELSE IF i = 62 THEN 43 ELSE 47

B64Index(c) == CHOOSE i \in 0..63 : B64Char(i) = c

RECURSIVE b64encode(_)
b64encode(b) ==
    IF Len(b) = 0 THEN <<>>
    ELSE IF Len(b) = 1
    THEN LET n == b[1] * 65536
         IN  <<B64Char(n \div 262144), B64Char((n \div 4096) % 64), 61, 61>>
    ELSE IF Len(b) = 2
    THEN LET n == b[1] * 65536 + b[2] * 256
         IN  <<B64Char(n \div 262144), B64Char((n \div 4096) % 64),
               B64Char((n \div 64) % 64), 61>>
    ELSE LET n == b[1] * 65536 + b[2] * 256 + b[3]
         IN  <<B64Char(n \div 262144), B64Char((n \div 4096) % 64),
               B64Char((n \div 64) % 64), B64Char(n % 64)>>
             \o b64encode(SubSeq(b, 4, Len(b)))

\* b64decode raises on a length that is no multiple of four
B64Padded(s) == Len(s) % 4 = 0

RECURSIVE b64decode(_)
b64decode(s) ==
    IF Len(s) = 0 THEN <<>>
    ELSE LET g == SubSeq(s, 1, 4)
             pad == Cardinality({i \in 1..4 : g[i] = 61})
             v(i) == IF g[i] = 61 THEN 0 ELSE B64Index(g[i])
             n == v(1) * 262144 + v(2) * 4096 + v(3) * 64 + v(4)
             b == <<n \div 65536, (n \div 256) % 256, n % 256>>
         IN  SubSeq(b, 1, 3 - pad) \o b64decode(SubSeq(s, 5, Len(s)))

\* bytes.decode('ascii') raises on a byte above 127
IsAscii(b) == \A i \in 1..Len(b) : b[i] < 128

RECURSIVE SeqLess(_, _)
\* s < t for strings
SeqLess(s, t) ==
    IF t = <<>> THEN FALSE
    ELSE IF s = <<>> THEN TRUE
    ELSE IF s[1] # t[1] THEN s[1] < t[1]
    ELSE SeqLess(Tail(s), Tail(t))

RECURSIVE PartsLess(_, _)
\* p < q for lists of strings (the parts of two paths)
PartsLess(p, q) ==
    IF q = <<>> THEN FALSE
    ELSE IF p = <<>> THEN TRUE
    ELSE IF p[1] # q[1] THEN SeqLess(p[1], q[1])
    ELSE PartsLess(Tail(p), Tail(q))

(***************************************************************************)
(* Cache: the file system cache.  A file is a record                       *)
(*   path   its place below the base directory (z, x and the parts of the  *)
(*          file name), data, mtime and ctime as the file system has them; *)
(*   tile, tok   what _put was asked to store (history, never read by the  *)
(*          operations).                                                   *)
(***************************************************************************)
Cache_path(t, etag) ==
    LET safe_etag == b64encode(encode(etag))
        filename == Fmt(t.y, 6) \o <<46>> \o safe_etag \o <<46, 112, 110, 103>>
    IN  [z |-> Fmt(t.z, 2), x |-> Fmt(t.x, 6), segs |-> PathParts(filename)]

\* Cache_path, tabulated for the tiles and etags of the model
PathTable == [t \in Tiles, e \in {<<>>} \cup Tokens |-> Cache_path(t, e)]

PathOf(t, etag) ==
    IF <<t, etag>> \in DOMAIN PathTable
    THEN PathTable[t, etag] ELSE Cache_path(t, etag)

\* the parts of a path, as pathlib compares them
Parts(p) == <<p.z, p.x>> \o p.segs

Size(f) == Len(f.data)

RECURSIVE Total(_)
Total(F) ==
    IF F = {} THEN 0
    ELSE LET f == CHOOSE e \in F : TRUE IN Size(f) + Total(F \ {f})

\* the etag _find reads from the name of a directory entry
FindEtag(name) == b64decode(Split(name, 46)[2])

\* True when the try block of _find passes for the entry
FindDecodes(name) ==
    /\ Len(Split(name, 46)) >= 2
    /\ B64Padded(Split(name, 46)[2])
    /\ IsAscii(FindEtag(name))

\* FindEtag and FindDecodes, tabulated for the names _path can produce
NameTable ==
    [n \in {PathTable[k].segs[1] : k \in DOMAIN PathTable} |->
        [ok |-> FindDecodes(n),
         etag |-> IF FindDecodes(n) THEN FindEtag(n) ELSE <<>>]]

Decoded(name) ==
    IF name \in DOMAIN NameTable
    THEN NameTable[name]
    ELSE [ok |-> FindDecodes(name),
          etag |-> IF FindDecodes(name) THEN FindEtag(name) ELSE <<>>]

\* The results _find can return: the first entry (in the order iterdir
\* happens to list them) that is a file, starts with the y prefix and
\* decodes; (None, None) when there is none.  mtime None is written 0.
Cache_find(F, t) ==
    LET p == PathOf(t, <<>>)
        match == Fmt(t.y, 6) \o <<46>>
        hits == {f \in F : /\ f.path.z = p.z
                           /\ f.path.x = p.x
                           /\ StartsWith(f.path.segs[1], match)
                           /\ Len(f.path.segs) = 1
                           /\ Decoded(f.path.segs[1]).ok}
    IN  IF hits = {}
        THEN {[etag |-> None, mtime |-> 0]}
        ELSE {[etag |-> Some(Decoded(f.path.segs[1]).etag),
               mtime |-> f.mtime] : f \in hits}

\* _get: the bytes of the entry, or LookupError (ok = FALSE)
Cache_get(F, t, etag) ==
    IF ~Truthy(etag)
    THEN [ok |-> FALSE, data |-> NoData]
    ELSE LET hit == {f \in F : f.path = PathOf(t, etag.s)}
         IN  IF hit = {}
             THEN [ok |-> FALSE, data |-> NoData]
             ELSE [ok |-> TRUE, data |-> Bytes((CHOOSE f \in hit : TRUE).data)]

\* _clean, for the entry _find returned
Cache_clean(F, t, current, existing) ==
    IF Truthy(existing) /\ existing # current
    THEN {f \in F : f.path # PathOf(t, existing.s)}
    ELSE F

\* the sort with the newest entry first
EntryLess_NewestFirst(e, g) ==
    \/ e.ctime > g.ctime
    \/ e.ctime = g.ctime /\ Size(e) < Size(g)
    \/ e.ctime = g.ctime /\ Size(e) = Size(g)
         /\ PartsLess(Parts(e.path), Parts(g.path))

\* entries.sort(): tuples (st_ctime, st_size, path)
EntryLess(e, g) ==
    \/ e.ctime < g.ctime
    \/ e.ctime = g.ctime /\ Size(e) < Size(g)
    \/ e.ctime = g.ctime /\ Size(e) = Size(g)
         /\ PartsLess(Parts(e.path), Parts(g.path))

RECURSIVE VacuumLoop(_, _)
\* the delete loop; excess10 is ten times the excess.  Below 50 bytes of
\* excess the float product excess * 1.1 compares against whole sizes as
\* the exact product does.
VacuumLoop(F, excess10) ==
    IF F = {} THEN {}
    ELSE LET f == CHOOSE e \in F : \A g \in F \ {e} : EntryLess(e, g)
             rest == excess10 - 10 * Size(f)
         IN  IF rest <= 0 THEN F \ {f} ELSE VacuumLoop(F \ {f}, rest)

\* _vacuum when no file disappears under it: the files it keeps
Cache_vacuum(F, limit) ==
    IF limit = 0 THEN F
    ELSE LET used == Total(F)
             excess == used - limit
         IN  IF excess <= 0 THEN F ELSE VacuumLoop(F, 11 * excess)

NewFile(t, etag, data, clock) ==
    [path |-> PathOf(t, etag.s), data |-> data, mtime |-> clock,
     ctime |-> clock, tile |-> t, tok |-> etag.s]

PutResult(F, exc, wrote, vcalled, vpre) ==
    [files |-> F, exc |-> exc, wrote |-> wrote, vcalled |-> vcalled,
     vpre |-> vpre]

\* _put: the outcomes (files left, exception raised).  race = "scan": another
\* process removes a file while _vacuum walks the tree, path.stat() raises.
Cache_put(F, clock, limit, t, etag, data, race) ==
    IF ~Truthy(etag)
    THEN {PutResult(F, "", FALSE, FALSE, {})}
    ELSE IF \E f \in F : f.path = PathOf(t, etag.s)
    THEN {PutResult(F, "", FALSE, FALSE, {})}
    ELSE UNION {
        LET F2 == Cache_clean(F, t, etag, existing.etag)
                      \cup {NewFile(t, etag, data, clock)}
        IN  IF race = "scan" /\ limit # 0
            THEN {PutResult(F2 \ {v}, "FileNotFoundError", TRUE, TRUE, F2) :
                     v \in F2}
            ELSE {PutResult(Cache_vacuum(F2, limit), "", TRUE, TRUE, F2)}
        : existing \in Cache_find(F, t)}

\* what the wrapped source can do when called with etag: fail, send a tile,
\* or (only when it was given an etag) answer "not modified"
Answers(etag) ==
    {[kind |-> "raise", etag |-> None, data |-> NoData]}
    \cup {[kind |-> "tile", etag |-> e, data |-> Bytes(d)] :
             e \in Etags, d \in Datas}
    \cup (IF Truthy(etag)
          THEN {[kind |-> "notmod", etag |-> etag, data |-> NoData]}
          ELSE {})

\* TileService.fetch: with cached_only it raises LookupError before any
\* request is made, otherwise it answers as above
SourceAnswers(etag, cached_only) ==
    IF cached_only
    THEN {[kind |-> "lookup", etag |-> None, data |-> NoData]}
    ELSE Answers(etag)

Raise(e) == [kind |-> "raise", exc |-> e, etag |-> None, data |-> NoData]

Return(e, d) == [kind |-> "ok", exc |-> "", etag |-> e, data |-> d]

\* outcome of a fetch that does not reach _put; seen: the race that happened
Out(F, res, calls, answers, seen) ==
    [files |-> F, res |-> res, calls |-> calls, answers |-> answers,
     race |-> seen, wrote |-> FALSE, vcalled |-> FALSE, vpre |-> {}]

\* outcome of a fetch that ends in _put(recv_etag, data)
OutPut(F, clock, c, t, recv_etag, data, race, calls, answers, seen) ==
    {[files |-> r.files,
      res |-> IF r.exc = "" THEN Return(recv_etag, data) ELSE Raise(r.exc),
      calls |-> calls, answers |-> answers,
      race |-> IF r.exc = "" THEN seen ELSE "scan",
      wrote |-> r.wrote, vcalled |-> r.vcalled, vpre |-> r.vpre] :
        r \in Cache_put(F, clock, c.limit, t, recv_etag, data.b, race)}

\* Cache.fetch(x, y, z, etag=arg, cached_only=cached_only): the set of
\* outcomes.  race = "read": another process removes the entry _find
\* returned before it is read.
Cache_fetch(F, clock, c, t, arg, race, cached_only) ==
    IF ~arg.isNone
    THEN \* mtime is assigned only in the branch "etag is None"
         {Out(F, Raise("UnboundLocalError"), <<>>, <<>>, "none")}
    ELSE UNION {
        LET etag == found.etag
            Fr == IF race = "read" /\ ~etag.isNone
                  THEN {f \in F : f.path # PathOf(t, etag.s)}
                  ELSE F
            seen == IF Fr # F THEN "read" ELSE "none"
            cached == Cache_get(Fr, t, etag)
        IN  IF found.mtime # 0 /\ clock - found.mtime < c.min_hours
            THEN {Out(Fr, IF cached.ok THEN Return(etag, cached.data)
                                       ELSE Raise("LookupError"),
                      <<>>, <<>>, seen)}
            ELSE UNION {
                IF a1.kind = "raise"
                THEN {Out(Fr, Raise("source"), <<etag>>, <<a1.kind>>, seen)}
                ELSE IF a1.kind = "lookup"
                THEN {Out(Fr, Raise("LookupError"), <<etag>>, <<a1.kind>>,
                          seen)}
                ELSE IF a1.data.nil /\ cached.ok
                THEN {Out(Fr, Return(etag, cached.data), <<etag>>,
                          <<a1.kind>>, seen)}
                ELSE IF a1.data.nil
                THEN UNION {
                    IF a2.kind = "raise"
                    THEN {Out(Fr, Raise("source"), <<etag, None>>,
                              <<a1.kind, a2.kind>>, seen)}
                    ELSE OutPut(Fr, clock, c, t, a2.etag, a2.data, race,
                                <<etag, None>>, <<a1.kind, a2.kind>>, seen)
                    : a2 \in Answers(None)}
                ELSE OutPut(Fr, clock, c, t, a1.etag, a1.data, race,
                            <<etag>>, <<a1.kind>>, seen)
                : a1 \in SourceAnswers(etag, cached_only)}
        : found \in Cache_find(F, t)}

\* what the vacuum pass of a fetch did: "skipped" (_put returned before it),
\* "nolimit", "within" (at or below the limit), "trimmed" (deleted some
\* files, kept others), "emptied" (deleted all), "failed" (raised)
VacuumKind(o, limit) ==
    IF ~o.vcalled THEN "skipped"
    ELSE IF o.res.exc = "FileNotFoundError" THEN "failed"
    ELSE IF limit = 0 THEN "nolimit"
    ELSE IF Total(o.vpre) <= limit THEN "within"
    ELSE IF o.files = {} THEN "emptied" ELSE "trimmed"

NoLast ==
    [op |-> "init", tile |-> CHOOSE t \in Tiles : TRUE, arg |-> None,
     cached_only |-> FALSE, race |-> "none", res |-> Return(None, NoData), calls |-> <<>>,
     answers |-> <<>>, vac |-> "skipped"]

CacheInit ==
    /\ files = {}
    /\ now = 1
    /\ cfg \in [limit : Limits, min_hours : MinHours]
    /\ last = NoLast

\* the Cache is not in use
CacheOff ==
    /\ files = {}
    /\ now = 1
    /\ cfg = [limit |-> 0, min_hours |-> 1]
    /\ last = NoLast

\* the interference of another process that can change what a fetch does:
\* none when the fetch raises at once, no "scan" when _vacuum is not reached
\* or returns at once
Races(arg, cached_only) ==
    IF ~arg.isNone THEN {"none"}
    ELSE IF cached_only \/ cfg.limit = 0 THEN {"none", "read"}
    ELSE {"none", "read", "scan"}

\* a caller fetches a tile through the cache
CacheFetch ==
    \E t \in Tiles, arg \in Args, cached_only \in BOOLEAN :
        \E o \in UNION {Cache_fetch(files, now, cfg, t, arg, race, cached_only) :
                           race \in Races(arg, cached_only)} :
            /\ files' = o.files
            /\ last' = [op |-> "fetch", tile |-> t, arg |-> arg,
                        cached_only |-> cached_only,
                        race |-> o.race, res |-> o.res,
                        calls |-> o.calls, answers |-> o.answers,
                        vac |-> VacuumKind(o, cfg.limit)]
            /\ UNCHANGED <<now, cfg>>
            /\ UNCHANGED <<memVars, netVars, rcVars, geoVars, cpVars>>

\* an hour passes
Tick ==
    /\ now < MaxTime
    /\ now' = now + 1
    /\ last' = [last EXCEPT !.op = "tick"]
    /\ UNCHANGED <<files, cfg>>
    /\ UNCHANGED <<memVars, netVars, rcVars, geoVars, cpVars>>

CacheNext == CacheFetch \/ Tick

(***************************************************************************)
(* MemoryCache.  _values is an OrderedDict: a sequence of entries           *)
(* [k, result], k the tile and result the (etag, data) pair of the source. *)
(***************************************************************************)
MemKeys == Tiles \cup {[x |-> 0, y |-> 0, z |-> 0]}

Held(vals, k) == \E i \in DOMAIN vals : vals[i].k = k

Lookup(vals, k) == vals[CHOOSE i \in DOMAIN vals : vals[i].k = k].result

Without(vals, k) == SelectSeq(vals, LAMBDA e : e.k # k)

\* OrderedDict.move_to_end(k, last=False)
MoveToFront(vals, k) ==
    <<[k |-> k, result |-> Lookup(vals, k)]>> \o Without(vals, k)

\* popitem(last=False): drops the entry used last
PopItem_First(vals) == Tail(vals)

\* OrderedDict.popitem(last=True)
PopItem(vals) == SubSeq(vals, 1, Len(vals) - 1)

\* d[k] = result: replaces the value of a held key in place, appends a new key
SetItem(vals, k, result) ==
    IF Held(vals, k)
    THEN [i \in DOMAIN vals |->
             IF vals[i].k = k THEN [k |-> k, result |-> result] ELSE vals[i]]
    ELSE Append(vals, [k |-> k, result |-> result])

\* MemoryCache.fetch(x, y, z, etag): the set of outcomes
Mem_fetch(vals, size, k, etag) ==
    IF Held(vals, k)
    THEN {[values |-> MoveToFront(vals, k),
           res |-> [kind |-> "ok", result |-> Lookup(vals, k)],
           calls |-> 0, answer |-> "", dropped |-> <<>>]}
    ELSE {IF a.kind = "raise"
          THEN [values |-> vals,
                res |-> [kind |-> "raise",
                         result |-> [etag |-> None, data |-> NoData]],
                calls |-> 1, answer |-> a.kind, dropped |-> <<>>]
          ELSE LET result == [etag |-> a.etag, data |-> a.data]
                   full == Len(vals) >= size
                   v1 == IF full THEN PopItem(vals) ELSE vals
               IN  [values |-> MoveToFront(SetItem(v1, k, result), k),
                    res |-> [kind |-> "ok", result |-> result],
                    calls |-> 1, answer |-> a.kind,
                    dropped |-> IF full THEN <<vals[Len(vals)].k>>
                                        ELSE <<>>]
          : a \in Answers(etag)}

\* The reference: an LRU cache of capacity size, least recently used entry
\* first.  A hit moves the entry to the end; a miss asks the source and
\* appends the answer, dropping the first entry when the cache is full.
RefLRU(r, size, k, o) ==
    IF Held(r, k)
    THEN Without(r, k) \o <<[k |-> k, result |-> Lookup(r, k)]>>
    ELSE IF o.res.kind = "raise" THEN r
    ELSE (IF Len(r) >= size THEN Tail(r) ELSE r)
         \o <<[k |-> k, result |-> o.res.result]>>

NoMemLast ==
    [op |-> "init", k |-> CHOOSE t \in MemKeys : TRUE, arg |-> None,
     res |-> [kind |-> "ok", result |-> [etag |-> None, data |-> NoData]],
     calls |-> 0, held |-> FALSE, dropped |-> <<>>]

MemInit ==
    /\ values = <<>>
    /\ msize \in 1..MaxSize
    /\ ref = <<>>
    /\ mlast = NoMemLast

\* the MemoryCache is not in use
MemOff ==
    /\ values = <<>>
    /\ msize = 1
    /\ ref = <<>>
    /\ mlast = NoMemLast

\* a caller fetches a tile through the memory cache
MemFetch ==
    \E k \in MemKeys, arg \in Args :
        \E o \in Mem_fetch(values, msize, k, arg) :
            /\ values' = o.values
            /\ ref' = RefLRU(ref, msize, k, o)
            /\ mlast' = [op |-> "fetch", k |-> k, arg |-> arg, res |-> o.res,
                         calls |-> o.calls, held |-> Held(values, k),
                         dropped |-> o.dropped]
            /\ UNCHANGED msize
            /\ UNCHANGED <<cacheVars, netVars, rcVars, geoVars, cpVars>>

MemNext == MemFetch

(***************************************************************************)
(* TileService, wrapped in a Fallback.  net.pc is the place of the fetch:  *)
(*   "idle"     no fetch yet                                               *)
(*   "request"  TileService._request is about to send the GET             *)
(*   "except"   TileService.fetch has raised into Fallback.fetch           *)
(*   "done"     Fallback.fetch has returned or raised                      *)
(* net.outcomes lists the outcome of every GET of the TileService.fetch,   *)
(* net.zooms the zoom of every fetch Fallback asked of the TileService.    *)
(***************************************************************************)
\* the errors _request catches: requests.Timeout, requests.ConnectionError
Retryable == {"Timeout", "ConnectionError"}

\* what a GET can end in: a response 200 or 304, a response with an error
\* status (raise_for_status raises HTTPError), or no response
GetOutcomes == {"200", "304", "HTTPError"} \cup Retryable

\* the attributes of mapmaker.tilemap.Tile
TileAttrs ==
    {"x", "y", "zoom", "bbox", "contains", "_lat_edges", "_lon_edges"}

\* the comparison off by one
RetriesExhausted_OffByOne(retry_count, limit) == retry_count >= limit

\* _request: "raise only if retries are exhausted"
RetriesExhausted(retry_count, limit) == retry_count > limit

NetIdle ==
    [pc |-> "idle", tile |-> [x |-> 0, y |-> 0, z |-> 0], etag |-> None,
     cached_only |-> FALSE, retry_count |-> 1, outcomes |-> <<>>,
     zooms |-> <<>>, sres |-> Return(None, NoData),
     res |-> Return(None, NoData)]

NetInit ==
    /\ net = NetIdle
    /\ max_retries \in 0..MaxRetries

\* the TileService is not in use
NetOff ==
    /\ net = NetIdle
    /\ max_retries = 0

\* Fallback.fetch(x, y, z, etag, cached_only) calls TileService.fetch, which
\* raises LookupError for cached_only and else goes on to _request
Fallback_fetch ==
    \E t \in MemKeys, etag \in Args, cached_only \in BOOLEAN :
        /\ net.pc \in {"idle", "done"}
        /\ net' = [NetIdle EXCEPT
                      !.pc = IF cached_only THEN "except" ELSE "request",
                      !.tile = t, !.etag = etag,
                      !.cached_only = cached_only,
                      !.zooms = <<t.z>>,
                      !.sres = IF cached_only THEN Raise("LookupError")
                                              ELSE Return(None, NoData)]
        /\ UNCHANGED max_retries
        /\ UNCHANGED <<cacheVars, memVars, rcVars, geoVars, cpVars>>

\* one call of TileService._request: the GET and what follows from it
TileService_request ==
    \E outcome \in GetOutcomes, recv_etag \in Etags, content \in Datas :
        /\ net.pc = "request"
        /\ outcome = "304" => Truthy(net.etag)
        /\ outcome # "200" =>
               recv_etag = None /\ content = CHOOSE d \in Datas : TRUE
        /\ LET seen == Append(net.outcomes, outcome)
           IN  IF outcome = "200"
               THEN net' = [net EXCEPT
                               !.pc = "done", !.outcomes = seen,
                               !.sres = Return(recv_etag, Bytes(content)),
                               !.res = Return(recv_etag, Bytes(content))]
               ELSE IF outcome = "304"
               THEN net' = [net EXCEPT
                               !.pc = "done", !.outcomes = seen,
                               !.sres = Return(net.etag, NoData),
                               !.res = Return(net.etag, NoData)]
               ELSE IF outcome = "HTTPError"
               THEN net' = [net EXCEPT
                               !.pc = "except", !.outcomes = seen,
                               !.sres = Raise("HTTPError")]
               ELSE IF RetriesExhausted(net.retry_count, max_retries)
               THEN net' = [net EXCEPT
                               !.pc = "except", !.outcomes = seen,
                               !.sres = Raise(outcome)]
               ELSE net' = [net EXCEPT
                               !.outcomes = seen,
                               !.retry_count = net.retry_count + 1]
        /\ UNCHANGED max_retries
        /\ UNCHANGED <<cacheVars, memVars, rcVars, geoVars, cpVars>>

\* Fallback._fallback: Tile(x, y, z).parent() - Tile has no attribute parent
Fallback_fallback ==
    /\ net.pc = "except"
    /\ "parent" \notin TileAttrs
    /\ net' = [net EXCEPT !.pc = "done", !.res = Raise("AttributeError")]
    /\ UNCHANGED max_retries
    /\ UNCHANGED <<cacheVars, memVars, rcVars, geoVars, cpVars>>

NetNext == Fallback_fetch \/ TileService_request \/ Fallback_fallback

(***************************************************************************)
(* RenderContext (mapmaker/render.py): build() puts the tiles of the map   *)
(* on a queue, runs parallel_downloads workers and crops the canvas.  The  *)
(* service and the image decoder are the environment: a fetch returns      *)
(* bytes or raises, Image.open returns an image or raises.                 *)
(***************************************************************************)
\* TileMap.tiles.values(): x outside, y inside, in insertion order
RECURSIVE Column(_, _, _)
Column(x, y, by) ==
    IF y > by THEN <<>> ELSE <<[x |-> x, y |-> y]>> \o Column(x, y + 1, by)

RECURSIVE MapTiles(_, _, _, _)
MapTiles(x, bx, ay, by) ==
    IF x > bx THEN <<>>
    ELSE Column(x, ay, by) \o MapTiles(x + 1, bx, ay, by)

\* the maps a RenderContext is built for: 1..MaxX by 1..MaxY tiles
Maps ==
    {[ax |-> 1, ay |-> 1, bx |-> bx, by |-> by] :
        bx \in 1..MaxX, by \in 1..MaxY}

TilesOf(m) == MapTiles(m.ax, m.bx, m.ay, m.by)

Range(s) == {s[i] : i \in DOMAIN s}

DEFAULT_TILESIZE == 256

\* the sizes of the tiles a service sends
TileSizes == {DEFAULT_TILESIZE, 2 * DEFAULT_TILESIZE}

Workers == 1..MaxWorkers

NoImg == [nil |-> TRUE, width |-> 0, height |-> 0, pasted |-> {}]

\* threading.Lock: 0 is unlocked, otherwise the worker that holds it
Lock_acquire_Skip(l, w) == l

Lock_acquire(l, w) == w

Lock_release(l) == 0

\* _work's "except queue.Empty": the exceptions that end the worker quietly
Caught_All(exc) == TRUE

Caught(exc) == exc = "Empty"

\* _tile_complete: the new count of downloaded tiles
Tile_complete_Twice(downloaded, total) == downloaded + 2

Tile_complete(downloaded, total) == downloaded + 1

\* _paste_tile: the canvas after pasting the tile at x, y
Paste_tile(img, m, size, x, y) ==
    LET canvas == IF img.nil
                  THEN [nil |-> FALSE,
                        width |-> size * (m.bx - m.ax + 1),
                        height |-> size * (m.by - m.ay + 1),
                        pasted |-> {}]
                  ELSE img
    IN  [canvas EXCEPT !.pasted =
            @ \cup {<<(x - m.ax) * size, (y - m.ay) * size>>}]

\* _paste_tile: the box the tile is pasted at and the canvas it is pasted on
Box(m, size, t, img) ==
    [left |-> (t.x - m.ax) * size, top |-> (t.y - m.ay) * size,
     w |-> size, h |-> size, width |-> img.width, height |-> img.height]

\* _crop: the image cut to the crop box, which to_pixels places on the grid
\* of the tiles of the map; img.pasted keeps the places as paste() got them
Crop(img, m, size, inset) ==
    [img EXCEPT !.width = size * (m.bx - m.ax + 1) - 2 * inset,
                !.height = size * (m.by - m.ay + 1) - 2 * inset]

\* RenderContext.__init__; rc.inset stands for the bounding box of the map,
\* rc.allocs counts the Image.new of _paste_tile, rc.boxes lists for every
\* paste of the build the place of the tile and the size of the canvas
RcNew(m, k, size) ==
    [pc |-> "idle", map |-> m, parallel_downloads |-> k, svc_size |-> size,
     queue |-> <<>>, unfinished |-> 0, lock |-> 0,
     tile_size |-> DEFAULT_TILESIZE, img |-> NoImg,
     total_tiles |-> 0, downloaded_tiles |-> 0,
     started |-> 0, cur |-> 0,
     wpc |-> [w \in Workers |-> "new"],
     wtile |-> [w \in Workers |-> [x |-> 0, y |-> 0]],
     wexc |-> [w \in Workers |-> ""],
     builds |-> 0, fetched |-> <<>>, pastes |-> <<>>, reports |-> <<>>,
     failed |-> {},
     exc |-> "",
     inset |-> 0, allocs |-> 0, boxes |-> <<>>]

\* crop_box: how far inside the canvas the bounding box of the map lies, in
\* pixels from every edge (0: the box ends on the edges of the tiles)
Insets == {0, 16}

RcInit ==
    rc \in {[RcNew(m, k, size) EXCEPT !.inset = c] :
               m \in Maps, k \in Workers, size \in TileSizes, c \in Insets}

\* no RenderContext is in use
RcOff == rc = RcNew([ax |-> 1, ay |-> 1, bx |-> 1, by |-> 1], 1,
                    DEFAULT_TILESIZE)

\* an exception leaves the body of _work's "while True" in worker w: caught
\* as queue.Empty the worker returns, otherwise it leaves _work,
\* Thread.run() and build()
WorkRaise(r, w, e) ==
    IF Caught(e)
    THEN [r EXCEPT !.wpc[w] = "returned", !.wexc[w] = "", !.cur = 0]
    ELSE [r EXCEPT !.wpc[w] = "raised", !.wexc[w] = "", !.cur = 0,
                   !.pc = "raised", !.exc = e]

\* build() up to the loop that starts the workers
RcBuild ==
    /\ rc.pc \in {"idle", "returned", "raised"}
    /\ rc.builds < MaxBuilds
    /\ LET q == rc.queue \o TilesOf(rc.map)
       IN  rc' = [rc EXCEPT !.pc = "start",
                            !.queue = q,
                            !.unfinished = @ + Len(TilesOf(rc.map)),
                            !.total_tiles = Len(q),
                            !.started = 0,
                            !.cur = 0,
                            !.wpc = [w \in Workers |-> "new"],
                            !.builds = @ + 1,
                            !.fetched = <<>>,
                            !.pastes = <<>>,
                            !.boxes = <<>>,
                            !.reports = <<>>,
                            !.failed = {},
                            !.exc = ""]
    /\ UNCHANGED <<cacheVars, memVars, netVars, geoVars, cpVars>>

\* build() can go on to its next Thread: Thread.run() calls _work in the
\* thread of build() and returns when _work has returned
CanStartNext(r) ==
    /\ r.pc = "start"
    /\ r.started < r.parallel_downloads
    /\ r.cur = 0

\* threading.Thread(daemon=True, target=self._work).run()
RcThreadRun ==
    /\ CanStartNext(rc)
    /\ rc' = [rc EXCEPT !.started = @ + 1,
                        !.cur = rc.started + 1,
                        !.wpc[rc.started + 1] = "get"]
    /\ UNCHANGED <<cacheVars, memVars, netVars, geoVars, cpVars>>

\* _work: self._queue.get(block=False)
WorkGet(w) ==
    /\ rc.wpc[w] = "get"
    /\ rc' = IF rc.queue = <<>>
             THEN WorkRaise(rc, w, "Empty")
             ELSE [rc EXCEPT !.queue = Tail(@),
                             !.wtile[w] = Head(rc.queue),
                             !.wpc[w] = "fetch"]
    /\ UNCHANGED <<cacheVars, memVars, netVars, geoVars, cpVars>>

\* _work: self._service.fetch(tile) and Image.open of its bytes
WorkFetch(w) ==
    /\ rc.wpc[w] = "fetch"
    /\ \E outcome \in {"ok", "FetchError", "DecodeError"} :
        rc' = IF outcome = "ok"
              THEN [rc EXCEPT !.fetched = Append(@, rc.wtile[w]),
                              !.wpc[w] = "lock"]
              ELSE [rc EXCEPT !.fetched = Append(@, rc.wtile[w]),
                              !.failed = @ \cup {rc.wtile[w]},
                              !.wexc[w] = outcome,
                              !.wpc[w] = "task_done"]
    /\ UNCHANGED <<cacheVars, memVars, netVars, geoVars, cpVars>>

\* _work: "with self._lock" is entered
WorkLock(w) ==
    /\ rc.wpc[w] = "lock"
    /\ rc.lock = 0
    /\ rc' = [rc EXCEPT !.lock = Lock_acquire(@, w), !.wpc[w] = "paste"]
    /\ UNCHANGED <<cacheVars, memVars, netVars, geoVars, cpVars>>

\* _paste_tile
WorkPaste(w) ==
    /\ rc.wpc[w] = "paste"
    /\ LET img == Paste_tile(rc.img, rc.map, rc.svc_size,
                              rc.wtile[w].x, rc.wtile[w].y)
       IN  rc' = [rc EXCEPT !.tile_size = rc.svc_size,
                            !.img = img,
                            !.allocs = IF rc.img.nil THEN @ + 1 ELSE @,
                            !.pastes = Append(@, rc.wtile[w]),
                            !.boxes = Append(@, Box(rc.map, rc.svc_size,
                                                    rc.wtile[w], img)),
                            !.wpc[w] = "complete"]
    /\ UNCHANGED <<cacheVars, memVars, netVars, geoVars, cpVars>>

\* _tile_complete
WorkComplete(w) ==
    /\ rc.wpc[w] = "complete"
    /\ LET n == Tile_complete(rc.downloaded_tiles, rc.total_tiles)
       IN  rc' = [rc EXCEPT !.downloaded_tiles = n,
                            !.reports = Append(@, n),
                            !.wpc[w] = "unlock"]
    /\ UNCHANGED <<cacheVars, memVars, netVars, geoVars, cpVars>>

\* _work: "with self._lock" is left
WorkUnlock(w) ==
    /\ rc.wpc[w] = "unlock"
    /\ rc' = [rc EXCEPT !.lock = Lock_release(@), !.wpc[w] = "task_done"]
    /\ UNCHANGED <<cacheVars, memVars, netVars, geoVars, cpVars>>

\* _work: "finally: self._queue.task_done()", then the next round of the
\* loop or the way out for the exception of the fetch
WorkTaskDone(w) ==
    /\ rc.wpc[w] = "task_done"
    /\ LET r == [rc EXCEPT !.unfinished = @ - 1]
       IN  rc' = IF rc.wexc[w] = ""
                 THEN [r EXCEPT !.wpc[w] = "get"]
                 ELSE WorkRaise(r, w, rc.wexc[w])
    /\ UNCHANGED <<cacheVars, memVars, netVars, geoVars, cpVars>>

\* build(): self._queue.join() returns
RcJoin ==
    /\ rc.pc = "start"
    /\ rc.started = rc.parallel_downloads
    /\ rc.cur = 0
    /\ rc.unfinished = 0
    /\ rc' = [rc EXCEPT !.pc = "joined"]
    /\ UNCHANGED <<cacheVars, memVars, netVars, geoVars, cpVars>>

\* build(): _crop (there are no overlays) and "return self._img"
RcCrop ==
    /\ rc.pc = "joined"
    /\ rc' = IF rc.img.nil
             THEN [rc EXCEPT !.pc = "raised", !.exc = "AttributeError"]
             ELSE [rc EXCEPT !.pc = "returned",
                             !.img = Crop(@, rc.map, rc.tile_size,
                                          rc.inset)]
    /\ UNCHANGED <<cacheVars, memVars, netVars, geoVars, cpVars>>

RcNext ==
    \/ RcBuild
    \/ RcThreadRun
    \/ \E w \in Workers :
        \/ WorkGet(w)
        \/ WorkFetch(w)
        \/ WorkLock(w)
        \/ WorkPaste(w)
        \/ WorkComplete(w)
        \/ WorkUnlock(w)
        \/ WorkTaskDone(w)
    \/ RcJoin
    \/ RcCrop

(***************************************************************************)
(* Tile and bounding box arithmetic (mapmaker/tilemap.py, geo.py and the   *)
(* validation of parse.py).                                                *)
(*                                                                         *)
(* Angles are integers, 20000 to the degree.  A longitude is exact.  A     *)
(* latitude that is a multiple of 0.0001 degrees is the even number        *)
(* 20000 * degrees; any other latitude is the odd number between its two   *)
(* even neighbours, so that comparing two latitudes gives what comparing   *)
(* the floats gives.  The values of the transcendental functions are       *)
(* tabulated from the floats the code computes.                            *)
(***************************************************************************)
Deg(d) == 20000 * d

\* supported lat bounds for slippy map: 85.0511 and -85.0511
MAX_LAT == 1701022

MIN_LAT == -1701022

\* int(num / den) for den > 0: Python's int() rounds towards zero
Trunc(num, den) ==
    IF num >= 0 THEN num \div den ELSE -((-num) \div den)

\* the latitudes the model calls the functions with: the poles, the bounds
\* and their neighbours at 0.0001 degrees, the equator and the four places
\* of test_tile_coords
LatSamples ==
    {-1800000, -1701024, -1701022, -1701020, -653064, -81578, 0,
     867100, 1261390, 1701020, 1701022, 1701024, 1800000}

\* the longitudes: -180, -151.0074, -70.0112, 0, 42.4392, 137.1583, 180
LonSamples ==
    {-3600000, -3020148, -1400224, 0, 848784, 2743166, 3600000}

\* floor(65536 * (1.0 - asinh(tan(radians(lat))) / PI) / 2.0) for the
\* latitudes between the bounds; the product with n = 2^zoom is exact in
\* floating point, so int(... * n) is this number times n over 65536
MercatorY ==
    (-1701020 :> 65535) @@ (-653064 :> 39062) @@ (-81578 :> 33511) @@ (0 :> 32768)
    @@ (867100 :> 23992) @@ (1261390 :> 17858) @@ (1701020 :> 0)

\* mercator_to_lat(PI * (1 - 2 * k / 32)) for k = 0..32: the latitudes of
\* the tile edges of the zoom levels 0..5
LatEdge ==
    [k \in 0..32 |->
        <<1701023, 1679585, 1653525, 1621865, 1583427, 1536817,
          1480391, 1412253, 1330265, 1232127, 1115531, 978449,
          819597, 639043, 438861, 223569, 0, -223569,
          -438861, -639043, -819597, -978449, -1115531, -1232127,
          -1330265, -1412253, -1480391, -1536817, -1583427, -1621865,
          -1653525, -1679585, -1701023>>[k + 1]]

\* BBox.__post_init: the checks of the method the dataclass never calls
\* (its hook is named __post_init__)
BBox_post_init(b) ==
    IF b.minlat < -Deg(90) \/ b.maxlat > Deg(90)
       \/ b.minlon < -Deg(180) \/ b.maxlon > Deg(180)
    THEN "ValueError" ELSE ""

\* BBox(minlat, minlon, maxlat, maxlon): the __init__ the dataclass writes
BBox(minlat, minlon, maxlat, maxlon) ==
    [kind |-> "ok", exc |-> "",
     box |-> [minlat |-> minlat, minlon |-> minlon,
              maxlat |-> maxlat, maxlon |-> maxlon]]

\* the latitude check of _tile_coordinates
LatRejected(lat) == lat <= MIN_LAT \/ lat >= MAX_LAT

\* _tile_coordinates(lat, lon, zoom); the branch "lat == -90" is behind the
\* latitude check and never taken
tile_coordinates(lat, lon, zoom) ==
    IF LatRejected(lat)
    THEN [kind |-> "raise", exc |-> "ValueError", x |-> 0, y |-> 0]
    ELSE LET n == 2^zoom
         IN  [kind |-> "ok", exc |-> "",
              x |-> Trunc((lon + Deg(180)) * n, Deg(360)),
              y |-> Trunc(MercatorY[lat] * n, 65536)]

\* Tile._lat_edges: north, south
Tile_lat_edges(t) ==
    <<LatEdge[t.y * 2^(5 - t.zoom)], LatEdge[(t.y + 1) * 2^(5 - t.zoom)]>>

\* Tile._lon_edges: west, east
Tile_lon_edges(t) ==
    LET unit == Deg(360) \div 2^t.zoom
        lon0 == -Deg(180) + t.x * unit
    IN  <<lon0, lon0 + unit>>

\* Tile.bbox
Tile_bbox(t) ==
    BBox(Tile_lat_edges(t)[1], Tile_lon_edges(t)[1],
         Tile_lat_edges(t)[2], Tile_lon_edges(t)[2]).box

\* Tile.contains
Tile_contains(t, lat, lon) ==
    LET bbox == Tile_bbox(t)
    IN  IF lat < bbox.minlat \/ lat > bbox.maxlat THEN FALSE
        ELSE IF lon < bbox.minlon \/ lon > bbox.maxlon THEN FALSE
        ELSE TRUE

Min(a, b) == IF a <= b THEN a ELSE b

Max(a, b) == IF a >= b THEN a ELSE b

\* TileMap.__init__: the corner that comes first
Corner_Unordered(a, b) == a

Corner(a, b) == Min(a, b)

\* TileMap.__init__ with _generate_tiles
TileMap(ax, ay, bx, by, zoom, bbox) ==
    LET ax_ == Corner(ax, bx)
        ay_ == Corner(ay, by)
        bx_ == Max(ax, bx)
        by_ == Max(ay, by)
    IN  [ax |-> ax_, ay |-> ay_, bx |-> bx_, by |-> by_, zoom |-> zoom,
         bbox |-> bbox,
         tiles |-> {[x |-> x, y |-> y, zoom |-> zoom] :
                       x \in ax_..bx_, y \in ay_..by_}]

\* TileMap.num_tiles
num_tiles(m) == (m.bx - m.ax + 1) * (m.by - m.ay + 1)

\* TileMap.from_bbox
from_bbox(bbox, zoom) ==
    LET a == tile_coordinates(bbox.minlat, bbox.minlon, zoom)
        b == tile_coordinates(bbox.maxlat, bbox.maxlon, zoom)
    IN  IF a.kind = "raise" \/ b.kind = "raise"
        THEN [kind |-> "raise", exc |-> "ValueError"]
        ELSE [kind |-> "ok", exc |-> "",
              map |-> TileMap(a.x, a.y, b.x, b.y, zoom, bbox)]

\* BBoxAction._parse_bbox: the checks behind "# Validate"
parse_bbox_validate(bbox) ==
    IF bbox.minlat < MIN_LAT \/ bbox.minlat > MAX_LAT THEN "ValueError"
    ELSE IF bbox.maxlat < MIN_LAT \/ bbox.maxlat > MAX_LAT THEN "ValueError"
    ELSE IF bbox.minlon < -Deg(180) \/ bbox.minlon > Deg(180)
    THEN "ValueError"
    ELSE IF bbox.maxlon < -Deg(180) \/ bbox.maxlon > Deg(180)
    THEN "ValueError"
    ELSE ""

\* the latitudes of the boxes: the south pole, the bounds, -32.6532, 0,
\* 43.355 and 85.051
BoxLats == {-1800000, -1701022, -653064, 0, 867100, 1701020, 1701022}

\* the boxes from_bbox is called with: any two corners; those _parse_bbox
\* builds have min <= max
Boxes ==
    {BBox(lat0, lon0, lat1, lon1).box :
        lat0 \in BoxLats, lat1 \in BoxLats,
        lon0 \in LonSamples, lon1 \in LonSamples}

\* destination_point(lat, lon, bearing, distance) for the calls of
\* from_radius below, rounded to the unit: <<lat, lon>> for the key
\* <<lat, lon, bearing, distance>>; bearings in degrees, distances in metres
destination_point ==
    (<<200000, 200000, 0, -10>> :> <<199998, 200000>>)
    @@ (<<200000, 200000, 90, -10>> :> <<200000, 199998>>)
    @@ (<<200000, 200000, 180, -10>> :> <<200002, 200000>>)
    @@ (<<200000, 200000, 270, -10>> :> <<200000, 200002>>)
    @@ (<<200000, 200000, 0, 0>> :> <<200000, 200000>>)
    @@ (<<200000, 200000, 90, 0>> :> <<200000, 200000>>)
    @@ (<<200000, 200000, 180, 0>> :> <<200000, 200000>>)
    @@ (<<200000, 200000, 270, 0>> :> <<200000, 200000>>)
    @@ (<<200000, 200000, 0, 10>> :> <<200002, 200000>>)
    @@ (<<200000, 200000, 90, 10>> :> <<200000, 200002>>)
    @@ (<<200000, 200000, 180, 10>> :> <<199998, 200000>>)
    @@ (<<200000, 200000, 270, 10>> :> <<200000, 199998>>)
    @@ (<<1820000, 3620000, 0, -10>> :> <<1780002, 3620000>>)
    @@ (<<1820000, 3620000, 90, -10>> :> <<1780000, 3620103>>)
    @@ (<<1820000, 3620000, 180, -10>> :> <<1779998, 3620000>>)
    @@ (<<1820000, 3620000, 270, -10>> :> <<1780000, 3619897>>)
    @@ (<<1820000, 3620000, 0, 0>> :> <<1780000, 3620000>>)
    @@ (<<1820000, 3620000, 90, 0>> :> <<1780000, 3620000>>)
    @@ (<<1820000, 3620000, 180, 0>> :> <<1780000, 3620000>>)
    @@ (<<1820000, 3620000, 270, 0>> :> <<1780000, 3620000>>)
    @@ (<<1820000, 3620000, 0, 10>> :> <<1779998, 3620000>>)
    @@ (<<1820000, 3620000, 90, 10>> :> <<1780000, 3619897>>)
    @@ (<<1820000, 3620000, 180, 10>> :> <<1780002, 3620000>>)
    @@ (<<1820000, 3620000, 270, 10>> :> <<1780000, 3620103>>)

\* the centres and the radius of the calls of from_radius: (10, 10) and
\* (91, 181) with -10, 0 and 10 metres
Centres == {<<200000, 200000>>, <<1820000, 3620000>>}

Radii == {-10, 0, 10}

\* with_aspect: the new latitudes (aspect < 1) or longitudes (aspect > 1)
\* that destination_point gives for the extension computed from distance(),
\* rounded to the unit: <<new min, new max>> for the key
\* <<minlat, minlon, maxlat, maxlon, aspect>>; aspects in hundredths
Extended ==
    (<<-200000, -200000, 200000, 200000, -200>> :> <<96931, -96931>>)
    @@ (<<-200000, -200000, 200000, 200000, 50>> :> <<-403069, 403069>>)
    @@ (<<-200000, -200000, 200000, 200000, 150>> :> <<-296861, 296861>>)
    @@ (<<-200000, -200000, 200000, 200000, 200>> :> <<-396795, 396795>>)
    @@ (<<-200000, -200000, 200000, 200000, 300>> :> <<-596355, 596355>>)
    @@ (<<-200000, 3200000, 200000, 3580000, -200>> :> <<87087, -87087>>)
    @@ (<<-200000, 3200000, 200000, 3580000, 50>> :> <<-412913, 412913>>)
    @@ (<<-200000, 3200000, 200000, 3580000, 150>> :> <<3118129, 3661871>>)
    @@ (<<-200000, 3200000, 200000, 3580000, 200>> :> <<3023181, 3756819>>)
    @@ (<<-200000, 3200000, 200000, 3580000, 300>> :> <<2833535, 3946465>>)
    @@ (<<-1800000, -3600000, 1800000, 3600000, -200>> :> <<-900000, 900000>>)
    @@ (<<-1800000, -3600000, 1800000, 3600000, 50>> :> <<1800000, -1800000>>)
    @@ (<<-1800000, -3600000, 1800000, 3600000, 150>> :> <<-1800000, 1800000>>)
    @@ (<<-1800000, -3600000, 1800000, 3600000, 200>> :> <<-1800000, 1800000>>)
    @@ (<<-1800000, -3600000, 1800000, 3600000, 300>> :> <<-1800000, 1800000>>)
    @@ (<<-200000, -400000, 200000, 400000, -200>> :> <<293670, -293670>>)
    @@ (<<-200000, -400000, 200000, 400000, 50>> :> <<-206330, 206330>>)
    @@ (<<-200000, -400000, 200000, 400000, 150>> :> <<-796064, 796064>>)
    @@ (<<-200000, -400000, 200000, 400000, 200>> :> <<-994867, 994867>>)
    @@ (<<-200000, -400000, 200000, 400000, 300>> :> <<-1389684, 1389684>>)
    @@ (<<-200000, -100000, 200000, 100000, -200>> :> <<-1523, 1523>>)
    @@ (<<-200000, -100000, 200000, 100000, 50>> :> <<-501523, 501523>>)
    @@ (<<-200000, -100000, 200000, 100000, 150>> :> <<-46910, 46910>>)
    @@ (<<-200000, -100000, 200000, 100000, 200>> :> <<-96907, 96907>>)
    @@ (<<-200000, -100000, 200000, 100000, 300>> :> <<-196896, 196896>>)

\* the boxes with_aspect is called on: 20 by 20 degrees around (0, 0), 20 by
\* 19 degrees next to the date line, the whole globe, 20 by 40 and 20 by 10
\* degrees around (0, 0)
AspectBoxes ==
    {BBox(-200000, -200000, 200000, 200000).box,
     BBox(-200000, 3200000, 200000, 3580000).box,
     BBox(-1800000, -3600000, 1800000, 3600000).box,
     BBox(-200000, -400000, 200000, 400000).box,
     BBox(-200000, -100000, 200000, 100000).box}

\* the aspects, in hundredths: -2, 0, 0.5, 1, 1.5, 2 and 3
Aspects == {-200, 0, 50, 100, 150, 200, 300}

\* distance(): the extents in metres of the boxes above and of the boxes
\* with_aspect returns for them, measured as with_aspect measures them:
\* <<distance(minlat, minlon, minlat, maxlon),
\*   distance(minlat, minlon, maxlat, minlon)>> for the key
\* <<minlat, minlon, maxlat, maxlon>>
Extent ==
    (<<-200000, -200000, 200000, 200000>> :> <<2189773, 2223899>>)
    @@ (<<96931, -200000, -96931, 200000>> :> <<2215866, 1077824>>)
    @@ (<<-403069, -200000, 403069, 200000>> :> <<2086465, 4481922>>)
    @@ (<<-200000, -296861, 200000, 296861>> :> <<3249672, 2223899>>)
    @@ (<<-200000, -396795, 200000, 396795>> :> <<4342380, 2223899>>)
    @@ (<<-200000, -596355, 200000, 596355>> :> <<6520500, 2223899>>)
    @@ (<<-200000, 3200000, 200000, 3580000>> :> <<2080316, 2223899>>)
    @@ (<<87087, 3200000, -87087, 3580000>> :> <<2106549, 968367>>)
    @@ (<<-412913, 3200000, 412913, 3580000>> :> <<1975887, 4591379>>)
    @@ (<<-200000, 3118129, 200000, 3661871>> :> <<2976276, 2223899>>)
    @@ (<<-200000, 3023181, 200000, 3756819>> :> <<4014726, 2223899>>)
    @@ (<<-200000, 2833535, 200000, 3946465>> :> <<6085663, 2223899>>)
    @@ (<<-1800000, -3600000, 1800000, 3600000>> :> <<0, 20015087>>)
    @@ (<<-900000, -3600000, 900000, 3600000>> :> <<0, 10007543>>)
    @@ (<<1800000, -3600000, -1800000, 3600000>> :> <<0, 20015087>>)
    @@ (<<-1800000, -1800000, 1800000, 1800000>> :> <<0, 20015087>>)
    @@ (<<-200000, -400000, 200000, 400000>> :> <<4377410, 2223899>>)
    @@ (<<293670, -400000, -293670, 400000>> :> <<4296656, 3265461>>)
    @@ (<<-206330, -400000, 206330, 400000>> :> <<4372901, 2294285>>)
    @@ (<<-200000, -796064, 200000, 796064>> :> <<8691361, 2223899>>)
    @@ (<<-200000, -994867, 200000, 994867>> :> <<10836165, 2223899>>)
    @@ (<<-200000, -1389684, 200000, 1389684>> :> <<14960528, 2223899>>)
    @@ (<<-200000, -100000, 200000, 100000>> :> <<1095014, 2223899>>)
    @@ (<<-1523, -100000, 1523, 100000>> :> <<1111948, 16935>>)
    @@ (<<-501523, -100000, 501523, 100000>> :> <<1006913, 5576681>>)
    @@ (<<-200000, -46910, 200000, 46910>> :> <<513687, 2223899>>)
    @@ (<<-200000, -96907, 200000, 96907>> :> <<1061148, 2223899>>)
    @@ (<<-200000, -196896, 200000, 196896>> :> <<2155801, 2223899>>)

\* BBox.from_radius
from_radius(lat, lon, radius) ==
    LET n == destination_point[<<lat, lon, 0, radius>>]
        e == destination_point[<<lat, lon, 90, radius>>]
        s == destination_point[<<lat, lon, 180, radius>>]
        w == destination_point[<<lat, lon, 270, radius>>]
    IN  BBox(Min(Min(n[1], e[1]), Min(s[1], w[1])),
             Min(Min(n[2], e[2]), Min(s[2], w[2])),
             Max(Max(n[1], e[1]), Max(s[1], w[1])),
             Max(Max(n[2], e[2]), Max(s[2], w[2])))

\* BBox.with_aspect; aspect in hundredths
with_aspect(b, aspect) ==
    LET new == Extended[<<b.minlat, b.minlon, b.maxlat, b.maxlon, aspect>>]
    IN  IF aspect = 100 THEN [kind |-> "ok", exc |-> "", box |-> b]
        ELSE IF aspect < 100
        THEN IF aspect = 0
             THEN [kind |-> "raise", exc |-> "ZeroDivisionError", box |-> b]
             ELSE BBox(new[1], b.minlon, new[2], b.maxlon)
        ELSE BBox(b.minlat, new[1], b.maxlat, new[2])

NoBox == [minlat |-> 0, minlon |-> 0, maxlat |-> 0, maxlon |-> 0]

\* a call: its name, its arguments and its result; the functions keep no
\* state, so a behaviour is one call
Call(op, lat, lon, zoom, box, num, check, res) ==
    [op |-> op, lat |-> lat, lon |-> lon, zoom |-> zoom, box |-> box,
     num |-> num, check |-> check, res |-> res]

GeoInit ==
    geo = Call("init", 0, 0, 0, NoBox, 0, "", [kind |-> "ok", exc |-> ""])

\* tile and bounding box arithmetic is not in use
GeoOff == GeoInit

Zooms == 0..MaxZoom

\* _tile_coordinates(lat, lon, zoom)
GeoTileCoordinates ==
    /\ geo.op = "init"
    /\ \E lat \in LatSamples, lon \in LonSamples, zoom \in Zooms :
        geo' = Call("tile_coordinates", lat, lon, zoom, NoBox, 0, "",
                    tile_coordinates(lat, lon, zoom))
    /\ UNCHANGED <<cacheVars, memVars, netVars, rcVars, cpVars>>

\* Tile(x, y, zoom).contains(point) for the tile of the point
GeoContains ==
    /\ geo.op = "init"
    /\ \E lat \in LatSamples, lon \in LonSamples, zoom \in Zooms :
        LET c == tile_coordinates(lat, lon, zoom)
            t == [x |-> c.x, y |-> c.y, zoom |-> zoom]
        IN  /\ c.kind = "ok"
            /\ geo' = Call("contains", lat, lon, zoom, Tile_bbox(t), 0, "",
                           [kind |-> "ok", exc |-> "", tile |-> t,
                            contains |-> Tile_contains(t, lat, lon)])
    /\ UNCHANGED <<cacheVars, memVars, netVars, rcVars, cpVars>>

\* _parse_bbox's checks of a box, then TileMap.from_bbox(bbox, zoom)
GeoFromBBox ==
    /\ geo.op = "init"
    /\ \E bbox \in Boxes, zoom \in Zooms :
        geo' = Call("from_bbox", 0, 0, zoom, bbox, 0,
                    parse_bbox_validate(bbox), from_bbox(bbox, zoom))
    /\ UNCHANGED <<cacheVars, memVars, netVars, rcVars, cpVars>>

\* BBox(minlat=..., maxlat=..., minlon=..., maxlon=...) with the values of
\* test_validation: -90.1, -10 and 10; 20 and 90.1; -180.1 and 30; 40 and
\* 180.1
GeoBBox ==
    /\ geo.op = "init"
    /\ \E minlat \in {-1802000, -200000, 200000},
          maxlat \in {400000, 1802000},
          minlon \in {-3602000, 600000},
          maxlon \in {800000, 3602000} :
        LET r == BBox(minlat, minlon, maxlat, maxlon)
        IN  geo' = Call("BBox", 0, 0, 0,
                        [minlat |-> minlat, minlon |-> minlon,
                         maxlat |-> maxlat, maxlon |-> maxlon], 0,
                        BBox_post_init(r.box), r)
    /\ UNCHANGED <<cacheVars, memVars, netVars, rcVars, cpVars>>

\* BBox.from_radius(lat, lon, radius)
GeoFromRadius ==
    /\ geo.op = "init"
    /\ \E c \in Centres, radius \in Radii :
        geo' = Call("from_radius", c[1], c[2], 0, NoBox, radius, "",
                    from_radius(c[1], c[2], radius))
    /\ UNCHANGED <<cacheVars, memVars, netVars, rcVars, cpVars>>

\* bbox.with_aspect(aspect)
GeoWithAspect ==
    /\ geo.op = "init"
    /\ \E b \in AspectBoxes, aspect \in Aspects :
        geo' = Call("with_aspect", 0, 0, 0, b, aspect, "",
                    with_aspect(b, aspect))
    /\ UNCHANGED <<cacheVars, memVars, netVars, rcVars, cpVars>>

\* Frame._ticks works on decimal degrees; here a coordinate is a whole
\* number of seconds of arc, and the spans are such that the floating point
\* arithmetic of dms() and decimal() is exact on them
SecondsPerDegree == 3600

\* geo.dms(decimal): degrees, minutes and seconds of a span
dms(span) ==
    [d |-> span \div SecondsPerDegree,
     m |-> (span % SecondsPerDegree) \div 60,
     s |-> span % 60]

\* geo.decimal(d, m, s)
decimal(d, m, s) == d * SecondsPerDegree + m * 60 + s

\* the steps of _ticks: decimal(...) of i * per_tick for i in 1..n_ticks
RECURSIVE Steps(_, _, _)
Steps(i, n_ticks, per_tick) ==
    IF i > n_ticks THEN <<>>
    ELSE <<i * per_tick>> \o Steps(i + 1, n_ticks, per_tick)

\* Frame._ticks(start, end, n): per_tick in seconds is decimal(d=per_tick),
\* decimal(m=per_tick) or decimal(s=per_tick) of the branch taken, and
\* span / 0.0 raises ZeroDivisionError
Frame_ticks(start, end, n) ==
    LET span == end - start
        t == dms(span)
        per_tick == IF t.d >= n THEN decimal(t.d \div n, 0, 0)
                    ELSE IF t.m >= n THEN decimal(0, t.m \div n, 0)
                    ELSE decimal(0, 0, t.s \div n)
    IN  IF per_tick = 0
        THEN [kind |-> "raise", exc |-> "ZeroDivisionError", ticks |-> <<>>]
        ELSE LET steps == Steps(1, span \div per_tick, per_tick)
             IN  [kind |-> "ok", exc |-> "",
                  ticks |-> [i \in DOMAIN steps |-> start + steps[i]]]

\* the calls of _ticks: <<start, end>> in seconds for the spans 1, 10, 8,
\* 20, 3.5 and 2.5 degrees, 30 and 15 minutes, 30 and 7 seconds
TickSpans ==
    {<<0, 3600>>, <<0, 36000>>, <<0, 28800>>, <<-36000, 36000>>,
     <<0, 12600>>, <<0, 9000>>, <<0, 1800>>, <<36000, 36900>>,
     <<0, 30>>, <<0, 7>>}

\* the target counts: 8 is the default of _ticks and _tick_coordinates
TickCounts == {2, 8}

\* Frame._ticks(start, end, n)
GeoTicks ==
    /\ geo.op = "init"
    /\ \E span \in TickSpans, n \in TickCounts :
        geo' = Call("ticks", span[1], span[2], 0, NoBox, n, "",
                    Frame_ticks(span[1], span[2], n))
    /\ UNCHANGED <<cacheVars, memVars, netVars, rcVars, cpVars>>

GeoNext ==
    \/ GeoTicks
    \/ GeoTileCoordinates
    \/ GeoContains
    \/ GeoFromBBox
    \/ GeoBBox
    \/ GeoFromRadius
    \/ GeoWithAspect

(***************************************************************************)
(* Composer (mapmaker/decorations.py): decorations are registered for the  *)
(* MAP or the MARGIN area, build() lays them out around the map image.     *)
(* Areas and slots are strings, a title is a sequence of character codes.  *)
(* The RenderContext and the font are the environment: rc.build() returns  *)
(* a map image of some size or raises, font.getsize gives the size of a    *)
(* text.  Sizes and positions are pixels.                                  *)
(***************************************************************************)
PLACEMENTS ==
    {"NW", "NNW", "N", "NNE", "NE", "WNW", "W", "WSW", "ENE", "E", "ESE",
     "SW", "SSW", "S", "SSE", "SE", "C"}

NORTHERN == {"NW", "NNW", "N", "NNE", "NE"}

SOUTHERN == {"SW", "SSW", "S", "SSE", "SE"}

WESTERN == {"NW", "WNW", "W", "WSW", "SW"}

EASTERN == {"NE", "ENE", "E", "ESE", "SE"}

\* a table that allows every placement in both areas
SLOTS_AllPlacements == [MAP |-> PLACEMENTS, MARGIN |-> PLACEMENTS]

\* Composer._SLOTS
SLOTS ==
    [MAP |-> {"NW", "N", "NE", "W", "C", "E", "SW", "S", "SE"},
     MARGIN |-> {"NW", "NNW", "N", "NNE", "NE", "WNW", "W", "WSW",
                 "ENE", "E", "ESE", "SW", "SSW", "S", "SSE", "SE"}]

\* Cartouche._MARGIN_MASK
MARGIN_MASK ==
    [NW |-> <<1, 1, 1, 1>>, NNW |-> <<1, 1, 1, 0>>, N |-> <<1, 1, 1, 1>>,
     NNE |-> <<1, 0, 1, 1>>, NE |-> <<1, 1, 1, 1>>, ENE |-> <<0, 1, 1, 1>>,
     E |-> <<1, 1, 1, 1>>, ESE |-> <<1, 1, 0, 1>>, SE |-> <<1, 1, 1, 1>>,
     SSE |-> <<1, 0, 1, 1>>, S |-> <<1, 1, 1, 1>>, SSW |-> <<1, 1, 1, 0>>,
     SW |-> <<1, 1, 1, 1>>, WSW |-> <<1, 1, 0, 1>>, W |-> <<1, 1, 1, 1>>,
     WNW |-> <<0, 1, 1, 1>>]

\* Cartouche._TEXT_ANCHOR
TEXT_ANCHOR ==
    [NW |-> "rd", NNW |-> "ld", N |-> "md", NNE |-> "rd", NE |-> "ld",
     ENE |-> "la", E |-> "lm", ESE |-> "ld", SE |-> "la", SSE |-> "ra",
     S |-> "ma", SSW |-> "la", SW |-> "ra", WSW |-> "rd", W |-> "rm",
     WNW |-> "ra"]

\* Cartouche(title, placement=..., font_size=...): Decoration.margin is
\* (4, 4, 4, 4), the padding (4, 8, 4, 8), the border width 0
Cartouche(title, placement, font_size) ==
    [cls |-> "Cartouche", has_placement |-> TRUE, placement |-> placement,
     title |-> title, font_size |-> font_size, margin |-> 4]

\* CompassRose(placement=...): its margin is (12, 12, 12, 12)
CompassRose(placement) ==
    [cls |-> "CompassRose", has_placement |-> TRUE, placement |-> placement,
     title |-> <<>>, font_size |-> 0, margin |-> 12]

\* Scale(): it has a placement, "SW", and neither calc_size nor a draw that
\* takes a size
Scale ==
    [cls |-> "Scale", has_placement |-> TRUE, placement |-> "SW",
     title |-> <<>>, font_size |-> 0, margin |-> 0]

\* an object without the attribute placement
Object ==
    [cls |-> "object", has_placement |-> FALSE, placement |-> "",
     title |-> <<>>, font_size |-> 0, margin |-> 0]

\* the text "Title", as a sequence of character codes; <<32>> is a blank
Title == <<84, 105, 116, 108, 101>>

\* "not self.title or not self.title.strip()"
Blank(title) == \A i \in DOMAIN title : title[i] = 32

\* the areas callers name: the two of the Composer and one it does not know
Areas == {"MAP", "MARGIN", "FRAME"}

\* the placements callers name: those of PLACEMENTS and one that is none
Slots == PLACEMENTS \cup {"X"}

\* the decorations handed to add_decoration
Decorations ==
    {Object, Scale, Cartouche(<<>>, "X", 12), CompassRose("ESE")}

\* the placements add_title is called with
TitleSlots == {"N", "NE", "C", "X"}

\* the comments add_comment is called with: "SSE" is the default placement,
\* main.py puts the copyright at "ENE"
Comments == {<<Title, "SSE">>, <<Title, "ENE">>, <<<<32>>, "SSE">>}

\* the placements add_compass_rose is called with: "SE" is the default
RoseSlots == {"SE", "C"}

\* set_margin(*args): None, or one, two or four numbers, or three
MarginArgs ==
    {[none |-> TRUE, args |-> <<>>]}
    \cup {[none |-> FALSE, args |-> a] :
             a \in {<<0>>, <<0, 0>>, <<10, 20, 30, 40>>, <<1, 2, 3>>,
                    <<-1>>}}

\* set_frame(width=...)
FrameWidths == {-1, 0, 5}

\* the sizes of the map image rc.build() returns
MapSizes == {<<40, 30>>, <<400, 300>>}

\* a result of a method: it returns or it raises exc
CpOk == [kind |-> "ok", exc |-> ""]

CpRaise(exc) == [kind |-> "raise", exc |-> exc]

\* Composer.add_decoration(area, decoration): AttributeError (no placement)
\* and KeyError (no such area) are turned into ValueError
Composer_add_decoration(decorations, area, decoration) ==
    IF ~decoration.has_placement
    THEN [res |-> CpRaise("ValueError"), decorations |-> decorations]
    ELSE IF area \notin DOMAIN SLOTS
    THEN [res |-> CpRaise("ValueError"), decorations |-> decorations]
    ELSE IF decoration.placement \notin SLOTS[area]
    THEN [res |-> CpRaise("ValueError"), decorations |-> decorations]
    ELSE [res |-> CpOk,
          decorations |-> [decorations EXCEPT
                              ![area] = Append(@, decoration)]]

\* Composer.set_margin(*args): the new margins, <<>> for None
Composer_set_margin(margins, a) ==
    IF a.none THEN [res |-> CpOk, margins |-> <<>>]
    ELSE LET m == IF Len(a.args) = 1
                  THEN <<a.args[1], a.args[1], a.args[1], a.args[1]>>
                  ELSE IF Len(a.args) = 2
                  THEN <<a.args[1], a.args[2], a.args[1], a.args[2]>>
                  ELSE a.args
         IN  IF Len(a.args) \notin {1, 2, 4}
             THEN [res |-> CpRaise("ValueError"), margins |-> margins]
             ELSE IF \E i \in DOMAIN m : m[i] < 0
             THEN [res |-> CpRaise("ValueError"), margins |-> margins]
             ELSE [res |-> CpOk, margins |-> m]

\* Composer.set_frame(width): the width of the new frame, 0 for no frame
Composer_set_frame(frame, width) ==
    IF width < 0 THEN [res |-> CpRaise("ValueError"), frame |-> frame]
    ELSE IF width = 0 THEN [res |-> CpOk, frame |-> 0]
    ELSE [res |-> CpOk, frame |-> width]

\* font.getsize(title) of the font _load_font returns: a font whose
\* characters are half the font size wide
Font_getsize(title, font_size) ==
    <<Len(title) * (font_size \div 2), font_size>>

\* Cartouche.calc_size and CompassRose.calc_size; a Scale has none
calc_size(deco, map_size) ==
    IF deco.cls = "Cartouche"
    THEN IF Blank(deco.title) THEN [res |-> CpOk, size |-> <<0, 0>>]
         ELSE LET t == Font_getsize(deco.title, deco.font_size)
              IN  [res |-> CpOk,
                   size |-> <<t[1] + 2 * deco.margin + 8 + 8,
                              t[2] + 2 * deco.margin + 4 + 4>>]
    ELSE IF deco.cls = "CompassRose"
    THEN [res |-> CpOk,
          size |-> <<Trunc(map_size[1] * 5, 100) + 2 * deco.margin,
                     Trunc(map_size[2] * 10, 100) + 2 * deco.margin>>]
    ELSE [res |-> CpRaise("AttributeError"), size |-> <<0, 0>>]

\* the last decoration of a side sets its margin
Accumulate_Last(size, side) == size

\* _calc_margins: "top = max(h, top)" and the like
Accumulate(size, side) == Max(size, side)

\* _calc_margins: the loop over the MARGIN decorations; acc is
\* <<top, right, bottom, left>>
RECURSIVE MarginLoop(_, _, _)
MarginLoop(decos, map_size, acc) ==
    IF decos = <<>> THEN [res |-> CpOk, value |-> acc]
    ELSE LET deco == Head(decos)
             s == calc_size(deco, map_size)
             w == s.size[1]
             h == s.size[2]
             p == deco.placement
             a1 == IF p \in NORTHERN
                   THEN [acc EXCEPT ![1] = Accumulate(h, @)]
                   ELSE IF p \in SOUTHERN
                   THEN [acc EXCEPT ![3] = Accumulate(h, @)]
                   ELSE acc
             a2 == IF p \in WESTERN
                   THEN [a1 EXCEPT ![4] = Accumulate(w, @)]
                   ELSE IF p \in EASTERN
                   THEN [a1 EXCEPT ![2] = Accumulate(w, @)]
                   ELSE a1
         IN  IF s.res.kind = "raise" THEN [res |-> s.res, value |-> acc]
             ELSE MarginLoop(Tail(decos), map_size, a2)

\* Composer._calc_margins(map_size): "m[0]" of None raises TypeError
Composer_calc_margins(c, map_size) ==
    LET r == MarginLoop(c.decorations.MARGIN, map_size, <<0, 0, 0, 0>>)
        m == c.margins
    IN  IF r.res.kind = "raise" THEN r
        ELSE IF m = <<>>
        THEN [res |-> CpRaise("TypeError"), value |-> r.value]
        ELSE [res |-> CpOk,
              value |-> <<r.value[1] + m[1], r.value[2] + m[2],
                          r.value[3] + m[3], r.value[4] + m[4]>>]

\* Composer._calc_margin_pos(placement, img_size, frame_box, deco_size);
\* a box is <<left, top, right, bottom>>
Composer_calc_margin_pos(margins, placement, img_size, frame_box, deco_size) ==
    LET total_w == img_size[1]
        total_h == img_size[2]
        deco_w == deco_size[1]
        deco_h == deco_size[2]
        frame_left == frame_box[1]
        frame_top == frame_box[2]
        frame_right == frame_box[3]
        frame_bottom == frame_box[4]
        y == IF placement \in NORTHERN THEN <<frame_top - deco_h>>
             ELSE IF placement \in SOUTHERN THEN <<frame_bottom>>
             ELSE IF placement \in {"WNW", "ENE"} THEN <<frame_top>>
             ELSE IF placement \in {"W", "E"}
             THEN <<(total_h \div 2) - (deco_h \div 2)>>
             ELSE IF placement \in {"WSW", "ESE"}
             THEN <<frame_bottom - deco_h>>
             ELSE <<>>
        x == IF placement \in WESTERN THEN <<frame_left - deco_w>>
             ELSE IF placement \in EASTERN THEN <<frame_right>>
             ELSE IF placement \in {"NNW", "SSW"} THEN <<frame_left>>
             ELSE IF placement \in {"N", "S"}
             THEN <<(total_w \div 2) - (deco_w \div 2)>>
             ELSE IF placement \in {"NNE", "SSE"}
             THEN <<frame_right - deco_w>>
             ELSE <<>>
    IN  IF margins = <<>>
        THEN [res |-> CpRaise("TypeError"), pos |-> <<0, 0>>]
        ELSE IF y = <<>> \/ x = <<>>
        THEN [res |-> CpRaise("ValueError"), pos |-> <<0, 0>>]
        ELSE [res |-> CpOk, pos |-> <<x[1], y[1]>>]

\* Composer._calc_map_pos(placement, map_box, deco_size)
Composer_calc_map_pos(placement, map_box, deco_size) ==
    LET map_left == map_box[1]
        map_top == map_box[2]
        map_right == map_box[3]
        map_bottom == map_box[4]
        map_w == map_right - map_left
        map_h == map_bottom - map_top
        deco_w == deco_size[1]
        deco_h == deco_size[2]
        y == IF placement \in {"NW", "N", "NE"} THEN <<map_top>>
             ELSE IF placement \in {"W", "C", "E"}
             THEN <<map_top + (map_h \div 2) - (deco_h \div 2)>>
             ELSE IF placement \in {"SW", "S", "SE"}
             THEN <<map_bottom - deco_h>>
             ELSE <<>>
        x == IF placement \in {"NW", "W", "SW"} THEN <<map_left>>
             ELSE IF placement \in {"N", "C", "S"}
             THEN <<map_left + (map_w \div 2) - (deco_w \div 2)>>
             ELSE IF placement \in {"NE", "E", "SE"}
             THEN <<map_right - deco_w>>
             ELSE <<>>
    IN  IF y = <<>> \/ x = <<>>
        THEN [res |-> CpRaise("ValueError"), pos |-> <<0, 0>>]
        ELSE [res |-> CpOk, pos |-> <<x[1], y[1]>>]

\* Cartouche.draw and CompassRose.draw(draw, size): a Cartouche with a
\* title looks its placement up in _MARGIN_MASK and in _TEXT_ANCHOR
Decoration_draw(deco, size) ==
    IF deco.cls = "Cartouche"
    THEN IF Blank(deco.title) THEN CpOk
         ELSE IF deco.placement \notin DOMAIN MARGIN_MASK
         THEN CpRaise("KeyError")
         ELSE IF deco.placement \notin DOMAIN TEXT_ANCHOR
         THEN CpRaise("KeyError")
         ELSE CpOk
    ELSE IF deco.cls = "CompassRose" THEN CpOk
    ELSE CpRaise("AttributeError")

\* base.alpha_composite(deco_img, dest=deco_pos): the releases of the
\* imaging library differ on a destination left of or above the canvas;
\* the strict ones raise ValueError, the others clip the image
Image_alpha_composite(dest, strict) ==
    IF strict /\ (dest[1] < 0 \/ dest[2] < 0) THEN CpRaise("ValueError")
    ELSE CpOk

\* build(): the loop over the decorations of an area; ctx holds the sizes
\* and boxes of the image, placed lists what was composited where
RECURSIVE PlaceLoop(_, _, _, _)
PlaceLoop(decos, area, ctx, placed) ==
    IF decos = <<>> THEN [res |-> CpOk, placed |-> placed]
    ELSE LET deco == Head(decos)
             s == calc_size(deco, ctx.map_size)
             p == IF area = "MAP"
                  THEN Composer_calc_map_pos(deco.placement, ctx.map_box,
                                             s.size)
                  ELSE Composer_calc_margin_pos(ctx.margins, deco.placement,
                                                ctx.size, ctx.frame_box,
                                                s.size)
             d == Decoration_draw(deco, s.size)
             a == Image_alpha_composite(p.pos, ctx.strict)
         IN  IF s.res.kind = "raise" THEN [res |-> s.res, placed |-> placed]
             ELSE IF p.res.kind = "raise"
             THEN [res |-> p.res, placed |-> placed]
             ELSE IF d.kind = "raise" THEN [res |-> d, placed |-> placed]
             ELSE IF a.kind = "raise" THEN [res |-> a, placed |-> placed]
             ELSE PlaceLoop(Tail(decos), area, ctx,
                            Append(placed,
                                   [area |-> area,
                                    placement |-> deco.placement,
                                    pos |-> p.pos, size |-> s.size]))

\* the frame adds its width once
FrameGrow_Once(width) == width

\* build(): "w += 2 * self._frame.width"
FrameGrow(width) == 2 * width

NoOut ==
    [size |-> <<0, 0>>, map_size |-> <<0, 0>>, map_box |-> <<0, 0, 0, 0>>,
     frame_box |-> <<0, 0, 0, 0>>, margins |-> <<0, 0, 0, 0>>,
     placed |-> <<>>]

\* F(v), with v computed once
With(v, F(_)) == CHOOSE r \in {F(x) : x \in {v}} : TRUE

\* build(): the canvas, the box of the map and the box of the frame for
\* the margins m that _calc_margins returned
Composer_canvas(c, map_size, m, strict) ==
    LET map_w == map_size[1]
        map_h == map_size[2]
        top == m[1]
        right == m[2]
        bottom == m[3]
        left == m[4]
        w == left + map_w + right + FrameGrow(c.frame)
        h == top + map_h + bottom + FrameGrow(c.frame)
        map_top == top + c.frame
        map_left == left + c.frame
        map_box == <<map_left, map_top, map_left + map_w, map_top + map_h>>
        frame_box == IF c.frame # 0
                     THEN <<left, top, left + map_w + 2 * c.frame,
                            top + map_h + 2 * c.frame>>
                     ELSE map_box
    IN  [size |-> <<w, h>>, map_size |-> map_size, map_box |-> map_box,
         frame_box |-> frame_box, margins |-> c.margins, strict |-> strict]

\* build(): "for area in ('MAP', 'MARGIN')" on the canvas ctx
Composer_decorate(c, m, ctx) ==
    With(PlaceLoop(c.decorations.MAP, "MAP", ctx, <<>>), LAMBDA on_map :
        IF on_map.res.kind = "raise"
        THEN [res |-> on_map.res, out |-> NoOut]
        ELSE With(PlaceLoop(c.decorations.MARGIN, "MARGIN", ctx,
                            on_map.placed), LAMBDA on_margin :
            IF on_margin.res.kind = "raise"
            THEN [res |-> on_margin.res, out |-> NoOut]
            ELSE [res |-> CpOk,
                  out |-> [size |-> ctx.size, map_size |-> ctx.map_size,
                           map_box |-> ctx.map_box,
                           frame_box |-> ctx.frame_box, margins |-> m,
                           placed |-> on_margin.placed]]))

\* Composer.build(); map_img is what self._rc.build() does, strict the
\* kind of the imaging library
Composer_build(c, map_img, strict) ==
    IF map_img.res.kind = "raise"
    THEN [res |-> map_img.res, out |-> NoOut]
    ELSE With(Composer_calc_margins(c, map_img.size), LAMBDA mg :
        IF mg.res.kind = "raise" THEN [res |-> mg.res, out |-> NoOut]
        ELSE With(Composer_canvas(c, map_img.size, mg.value, strict),
                  LAMBDA ctx : Composer_decorate(c, mg.value, ctx)))

\* Composer.__init__; cp.frame is the width of the frame, 0 for None;
\* cp.op, cp.res and cp.out are the last call, its result and what the last
\* build() made
CpNew ==
    [margins |-> <<0, 0, 0, 0>>, frame |-> 0,
     decorations |-> [MAP |-> <<>>, MARGIN |-> <<>>],
     op |-> "init", res |-> CpOk, out |-> NoOut]

CpInit == cp = CpNew

\* no Composer is in use
CpOff == cp = CpNew

Registered(c) == Len(c.decorations.MAP) + Len(c.decorations.MARGIN)

\* the Composer after a call op that ends in add_decoration(area, deco)
CpAdd(op, area, deco) ==
    LET o == Composer_add_decoration(cp.decorations, area, deco)
    IN  [cp EXCEPT !.decorations = o.decorations, !.op = op,
                   !.res = o.res, !.out = NoOut]

\* add_decoration(area, decoration)
CpAddDecoration ==
    /\ Registered(cp) < MaxDecos
    /\ \E area \in Areas, deco \in Decorations :
        cp' = CpAdd("add_decoration", area, deco)
    /\ UNCHANGED <<cacheVars, memVars, netVars, rcVars, geoVars>>

\* add_title(text, area=..., placement=...): font_size is 16
CpAddTitle ==
    /\ Registered(cp) < MaxDecos
    /\ \E area \in Areas, placement \in TitleSlots :
        cp' = CpAdd("add_title", area, Cartouche(Title, placement, 16))
    /\ UNCHANGED <<cacheVars, memVars, netVars, rcVars, geoVars>>

\* add_comment(text, placement=...): area is "MARGIN", font_size is 12
CpAddComment ==
    /\ Registered(cp) < MaxDecos
    /\ \E c \in Comments :
        cp' = CpAdd("add_comment", "MARGIN", Cartouche(c[1], c[2], 12))
    /\ UNCHANGED <<cacheVars, memVars, netVars, rcVars, geoVars>>

\* add_compass_rose(placement=...): area is "MAP"
CpAddCompassRose ==
    /\ Registered(cp) < MaxDecos
    /\ \E placement \in RoseSlots :
        cp' = CpAdd("add_compass_rose", "MAP", CompassRose(placement))
    /\ UNCHANGED <<cacheVars, memVars, netVars, rcVars, geoVars>>

\* set_margin(*args)
CpSetMargin ==
    /\ \E a \in MarginArgs :
        LET o == Composer_set_margin(cp.margins, a)
        IN  cp' = [cp EXCEPT !.margins = o.margins, !.op = "set_margin",
                             !.res = o.res, !.out = NoOut]
    /\ UNCHANGED <<cacheVars, memVars, netVars, rcVars, geoVars>>

\* set_frame(width=...)
CpSetFrame ==
    /\ \E width \in FrameWidths :
        LET o == Composer_set_frame(cp.frame, width)
        IN  cp' = [cp EXCEPT !.frame = o.frame, !.op = "set_frame",
                             !.res = o.res, !.out = NoOut]
    /\ UNCHANGED <<cacheVars, memVars, netVars, rcVars, geoVars>>

\* what self._rc.build() does: it returns a map image or raises what the
\* download raised
MapImages ==
    {[res |-> CpOk, size |-> s] : s \in MapSizes}
    \cup {[res |-> CpRaise("FetchError"), size |-> <<0, 0>>]}

\* build()
CpBuild ==
    /\ \E map_img \in MapImages, strict \in BOOLEAN :
        LET o == Composer_build(cp, map_img, strict)
        IN  cp' = [cp EXCEPT !.op = "build", !.res = o.res, !.out = o.out]
    /\ UNCHANGED <<cacheVars, memVars, netVars, rcVars, geoVars>>

CpNext ==
    \/ CpAddDecoration
    \/ CpAddTitle
    \/ CpAddComment
    \/ CpAddCompassRose
    \/ CpSetMargin
    \/ CpSetFrame
    \/ CpBuild

Init == CacheInit /\ MemOff /\ NetOff /\ RcOff /\ GeoOff /\ CpOff

SpecCache == Init /\ [][CacheNext]_vars

MemSpecInit == MemInit /\ CacheOff /\ NetOff /\ RcOff /\ GeoOff /\ CpOff

SpecMem == MemSpecInit /\ [][MemNext]_vars

NetSpecInit == NetInit /\ CacheOff /\ MemOff /\ RcOff /\ GeoOff /\ CpOff

RcSpecInit == RcInit /\ CacheOff /\ MemOff /\ NetOff /\ GeoOff /\ CpOff

GeoSpecInit == GeoInit /\ CacheOff /\ MemOff /\ NetOff /\ RcOff /\ CpOff

SpecGeo == GeoSpecInit /\ [][GeoNext]_vars

SpecRender == RcSpecInit /\ [][RcNext]_vars

SpecNet == NetSpecInit /\ [][NetNext]_vars

CpSpecInit == CpInit /\ CacheOff /\ MemOff /\ NetOff /\ RcOff /\ GeoOff

SpecCompose == CpSpecInit /\ [][CpNext]_vars

(***************************************************************************)
(* Properties of the Cache.                                                *)
(***************************************************************************)
CacheTypeOK ==
    /\ now \in 1..MaxTime
    /\ \A f \in files : f.mtime \in 1..now /\ f.ctime = f.mtime
    /\ last.op \in {"init", "fetch", "tick"}

\* the step is a Cache.fetch without etag that no other process disturbs
QuietFetchStep ==
    /\ last'.op = "fetch"
    /\ last'.arg.isNone
    /\ last'.race = "none"
    /\ <<files, last>> # <<files', last'>>

\* C1: a fetch without etag of a tile whose stored entry is younger than
\* min_hours returns the stored etag and bytes and does not call the
\* wrapped source.
C1_FreshEntryServed ==
    [][QuietFetchStep =>
        \A f \in files :
            (f.tile = last'.tile /\ now - f.mtime < cfg.min_hours) =>
                /\ last'.res = Return(Some(f.tok), Bytes(f.data))
                /\ last'.calls = <<>>]_vars

\* C2: a fetch that is given an etag (and may ask the source) calls the
\* wrapped source exactly once and returns normally.
C2_EtagForcesFetch ==
    (last.op = "fetch" /\ ~last.arg.isNone /\ ~last.cached_only) =>
        (last.res.kind = "ok" /\ Len(last.calls) = 1)

\* C3: a fetch without etag (that may ask the source) of a tile whose
\* stored entry is min_hours old or older calls the wrapped source once, with the stored etag; on the answer
\* "not modified" it returns the stored bytes and leaves the files alone.
C3_StaleEntryRevalidated ==
    [][(QuietFetchStep /\ ~last'.cached_only) =>
        \A f \in files :
            (f.tile = last'.tile /\ now - f.mtime >= cfg.min_hours) =>
                /\ last'.calls = <<Some(f.tok)>>
                /\ (last'.answers = <<"notmod">> =>
                       /\ last'.res = Return(Some(f.tok), Bytes(f.data))
                       /\ files' = files)]_vars

\* C4: the cache holds at most one file for each tile.
C4_OneEntryPerTile ==
    \A f, g \in files : f.tile = g.tile => f = g

\* C5: every entry _put has written is the one _find returns for its tile,
\* with the etag it was stored under.
C5_EtagRoundTrip ==
    \A f \in files :
        Cache_find(files, f.tile) = {[etag |-> Some(f.tok), mtime |-> f.mtime]}

C7_CacheFailuresSwallowed ==
    (last.op = "fetch" /\ last.race # "none" /\ ~last.cached_only) =>
        \/ last.res.kind = "ok" /\ Len(last.calls) >= 1
        \/ last.res.kind = "raise" /\ last.res.exc = "source"

\* C15: a fetch with cached_only makes no request: the TileService is left
\* at its cached_only check; it returns only the stored entry of the tile,
\* and only when that is younger than min_hours; otherwise it raises
\* LookupError.
C15_CachedOnly ==
    [][(last'.op = "fetch" /\ last'.cached_only) =>
        /\ \A i \in DOMAIN last'.answers : last'.answers[i] = "lookup"
        /\ files' \subseteq files
        /\ last'.res.kind = "ok" =>
               \E f \in files :
                   /\ f.tile = last'.tile
                   /\ now - f.mtime < cfg.min_hours
                   /\ last'.res = Return(Some(f.tok), Bytes(f.data))
        /\ last'.res.kind = "raise" => last'.res.exc = "LookupError"]_vars

\* C15 for the fetches that are given no etag
CachedOnlyNoEtag ==
    [][(last'.op = "fetch" /\ last'.cached_only /\ last'.arg.isNone) =>
        /\ \A i \in DOMAIN last'.answers : last'.answers[i] = "lookup"
        /\ files' \subseteq files
        /\ last'.res.kind = "ok" =>
               \E f \in files :
                   /\ f.tile = last'.tile
                   /\ now - f.mtime < cfg.min_hours
                   /\ last'.res = Return(Some(f.tok), Bytes(f.data))
        /\ last'.res.kind = "raise" => last'.res.exc = "LookupError"]_vars

(***************************************************************************)
(* Properties of the MemoryCache.                                          *)
(***************************************************************************)
RECURSIVE Reverse(_)
Reverse(q) == IF q = <<>> THEN <<>> ELSE Reverse(Tail(q)) \o <<Head(q)>>

\* C8: the MemoryCache holds what the reference LRU cache of the same
\* capacity holds, in the same order of use, and never more than size
\* entries; from every state a fetch of a held key returns the stored result
\* without a call to the source, a fetch of any other key makes one call,
\* and an insert into a full cache drops the least recently used entry.
C8_RefinesLRU ==
    /\ Len(values) <= msize
    /\ values = Reverse(ref)
    /\ \A k \in MemKeys, arg \in Args :
           \A o \in Mem_fetch(values, msize, k, arg) :
               /\ Held(values, k) =>
                      /\ o.calls = 0
                      /\ o.res = [kind |-> "ok", result |-> Lookup(values, k)]
               /\ ~Held(values, k) => o.calls = 1
               /\ o.dropped # <<>> =>
                      /\ Len(values) = msize
                      /\ o.dropped = <<Head(ref).k>>
    /\ (mlast.op = "fetch" /\ mlast.held) => mlast.calls = 0
    /\ (mlast.op = "fetch" /\ ~mlast.held) => mlast.calls = 1

\* an insert has found the cache full and dropped an entry, while another
\* entry stayed
C8_Witness ==
    /\ mlast.op = "fetch"
    /\ mlast.dropped # <<>>
    /\ Len(values) = msize
    /\ msize > 1

(***************************************************************************)
(* Properties of the TileService and the Fallback.                         *)
(***************************************************************************)
\* C9: a TileService.fetch sends at most max_retries + 1 requests; every
\* request but the last ended in a timeout or connection error; such an
\* error is raised only after max_retries + 1 requests; a response with an
\* error status is raised by the request that received it.
C9_RetryPolicy ==
    LET n == Len(net.outcomes)
    IN  /\ n <= max_retries + 1
        /\ \A i \in 1..(n - 1) : net.outcomes[i] \in Retryable
        /\ (net.sres.kind = "raise" /\ net.sres.exc \in Retryable) =>
               (n = max_retries + 1 /\ net.outcomes[n] = net.sres.exc)
        /\ \A i \in 1..n :
               net.outcomes[i] = "HTTPError" =>
                   (i = n /\ net.sres = Raise("HTTPError"))
        /\ (n > 0 /\ net.outcomes[n] \in Retryable) =>
               \/ net.pc = "request" /\ n <= max_retries
               \/ net.sres = Raise(net.outcomes[n])

\* a fetch has retried and given up after max_retries + 1 requests
C9_Witness ==
    /\ max_retries >= 1
    /\ net.sres.kind = "raise"
    /\ net.sres.exc \in Retryable
    /\ Len(net.outcomes) = max_retries + 1

\* C10: when the TileService fails, Fallback.fetch asks for the parent tile,
\* one zoom level down at a time, at most z + 1 fetches in all, and raises
\* only when the fetch at zoom 0 has failed too.
C10_FallbackRecursion ==
    (net.pc = "done" /\ net.sres.kind = "raise") =>
        /\ Len(net.zooms) <= net.tile.z + 1
        /\ \A i \in DOMAIN net.zooms : net.zooms[i] = net.tile.z - (i - 1)
        /\ net.res.kind = "raise" => net.zooms[Len(net.zooms)] = 0

(***************************************************************************)
(* Properties of the RenderContext.                                        *)
(***************************************************************************)
\* the workers that hold a tile they took from the queue
InFlight == {w \in Workers : rc.wpc[w] \in {"fetch", "lock", "paste",
                                            "complete", "unlock",
                                            "task_done"}}

\* the workers in the paste step
Pasting == {w \in Workers : rc.wpc[w] \in {"paste", "complete", "unlock"}}

\* the workers run one after the other
RcSequential == Cardinality(InFlight) <= 1

\* C11: with parallel_downloads > 1 and at least that many tiles, build()
\* starts its workers side by side, so that their fetches overlap: while a
\* fetch is in flight and workers remain to be started, build() can start
\* the next worker.
C11_ParallelDownload ==
    \A w \in Workers :
        (/\ rc.parallel_downloads > 1
         /\ Len(TilesOf(rc.map)) >= rc.parallel_downloads
         /\ rc.wpc[w] = "fetch"
         /\ rc.started < rc.parallel_downloads)
            => CanStartNext(rc)

C13_BuildComplete ==
    (rc.pc = "returned" /\ rc.builds = 1) =>
        LET tiles == TilesOf(rc.map)
            N == Len(tiles)
        IN  /\ rc.queue = <<>>
            /\ rc.unfinished = 0
            /\ Len(rc.fetched) = N /\ Range(rc.fetched) = Range(tiles)
            /\ Len(rc.pastes) = N /\ Range(rc.pastes) = Range(tiles)
            /\ rc.reports = [i \in 1..N |-> i]
            /\ rc.total_tiles = N

\* the first build() of a map of four tiles with two workers has returned
C13_Witness ==
    /\ rc.pc = "returned"
    /\ rc.builds = 1
    /\ rc.parallel_downloads = 2
    /\ Len(TilesOf(rc.map)) = 4

\* the places of the tiles of map m on the canvas, for tiles of this size
Places(m, size) ==
    {<<(t.x - m.ax) * size, (t.y - m.ay) * size>> : t \in Range(TilesOf(m))}

\* C14: once the fetch or the decoding of a tile has failed, build() does
\* not return: it raises that failure; a build() that returns has pasted
\* every tile of the map.
C14_NoPartialMaps ==
    /\ rc.failed # {} =>
        /\ rc.pc \in {"start", "raised"}
        /\ rc.pc = "raised" => rc.exc \in {"FetchError", "DecodeError"}
    /\ rc.pc = "returned" =>
        /\ rc.failed = {}
        /\ ~rc.img.nil
        /\ Places(rc.map, rc.svc_size) \subseteq rc.img.pasted
        /\ Range(TilesOf(rc.map)) \subseteq Range(rc.pastes)

\* build() has raised the failure of a tile after other tiles were pasted
C14_Witness ==
    /\ rc.pc = "raised"
    /\ rc.exc = "DecodeError"
    /\ rc.failed # {}
    /\ rc.pastes # <<>>


(***************************************************************************)
(* Properties of the tile and bounding box arithmetic.                     *)
(***************************************************************************)
\* the tile of zoom level zoom that _tile_coordinates gives for a place
TileAt(lat, lon, zoom) ==
    [x |-> tile_coordinates(lat, lon, zoom).x,
     y |-> tile_coordinates(lat, lon, zoom).y, zoom |-> zoom]

\* C16: the grid from_bbox builds has ax <= bx and ay <= by, its tiles are
\* the num_tiles tiles of the rectangle between the corners, the tiles of
\* the four corners of the box are among them, and the edges of its outer
\* tiles enclose the box.
C16_GridCoversBBox ==
    (geo.op = "from_bbox" /\ geo.res.kind = "ok") =>
        LET m == geo.res.map
            b == geo.box
            nw == [x |-> m.ax, y |-> m.ay, zoom |-> m.zoom]
            se == [x |-> m.bx, y |-> m.by, zoom |-> m.zoom]
        IN  /\ m.ax <= m.bx
            /\ m.ay <= m.by
            /\ m.tiles = {[x |-> x, y |-> y, zoom |-> geo.zoom] :
                             x \in m.ax..m.bx, y \in m.ay..m.by}
            /\ Cardinality(m.tiles) = num_tiles(m)
            /\ \A lat \in {b.minlat, b.maxlat}, lon \in {b.minlon, b.maxlon} :
                   TileAt(lat, lon, geo.zoom) \in m.tiles
            /\ Tile_lat_edges(nw)[1] >= Max(b.minlat, b.maxlat)
            /\ Tile_lat_edges(se)[2] <= Min(b.minlat, b.maxlat)
            /\ Tile_lon_edges(nw)[1] <= Min(b.minlon, b.maxlon)
            /\ Tile_lon_edges(se)[2] >= Max(b.minlon, b.maxlon)

\* from_bbox has built a grid of four or more tiles from corners whose
\* indices came in both orders: ax < bx and ay > by
C16_Witness ==
    /\ geo.op = "from_bbox"
    /\ geo.res.kind = "ok"
    /\ num_tiles(geo.res.map) >= 4
    /\ TileAt(geo.box.minlat, geo.box.minlon, geo.zoom).x
           < TileAt(geo.box.maxlat, geo.box.maxlon, geo.zoom).x
    /\ TileAt(geo.box.minlat, geo.box.minlon, geo.zoom).y
           > TileAt(geo.box.maxlat, geo.box.maxlon, geo.zoom).y

\* C17: for a latitude between the bounds and a longitude in -180..180 the
\* tile index is computed and has 0 <= x < 2^zoom and 0 <= y < 2^zoom.
C17_TileIndexRange ==
    (/\ geo.op = "tile_coordinates"
     /\ MIN_LAT < geo.lat /\ geo.lat < MAX_LAT
     /\ -Deg(180) <= geo.lon /\ geo.lon <= Deg(180)) =>
        /\ geo.res.kind = "ok"
        /\ 0 <= geo.res.x /\ geo.res.x < 2^geo.zoom
        /\ 0 <= geo.res.y /\ geo.res.y < 2^geo.zoom

\* C18: the bounding box of the tile computed for a place contains the
\* place: minlat <= lat <= maxlat and minlon <= lon <= maxlon, which is
\* what Tile.contains tests.
C18_RoundTrip ==
    geo.op = "contains" =>
        /\ geo.box.minlat <= geo.lat /\ geo.lat <= geo.box.maxlat
        /\ geo.box.minlon <= geo.lon /\ geo.lon <= geo.box.maxlon
        /\ geo.res.contains

\* the place lies between the edges of the tile computed for it
TileEdgesContain ==
    geo.op = "contains" =>
        /\ Tile_lat_edges(geo.res.tile)[2] <= geo.lat
        /\ geo.lat <= Tile_lat_edges(geo.res.tile)[1]
        /\ Tile_lon_edges(geo.res.tile)[1] <= geo.lon
        /\ geo.lon <= Tile_lon_edges(geo.res.tile)[2]

\* C19: _tile_coordinates raises exactly for the latitudes below MIN_LAT or
\* above MAX_LAT, and from_bbox builds a map from every box that passes the
\* checks of _parse_bbox.
C19_LatitudeBounds ==
    /\ geo.op = "tile_coordinates" =>
        (geo.res.kind = "raise" <=>
            (geo.lat < MIN_LAT \/ geo.lat > MAX_LAT))
    /\ (geo.op = "from_bbox" /\ geo.check = "") => geo.res.kind = "ok"

\* all four coordinates of the box are in -90..90 and -180..180
InRange(b) ==
    /\ -Deg(90) <= b.minlat /\ b.minlat <= Deg(90)
    /\ -Deg(90) <= b.maxlat /\ b.maxlat <= Deg(90)
    /\ -Deg(180) <= b.minlon /\ b.minlon <= Deg(180)
    /\ -Deg(180) <= b.maxlon /\ b.maxlon <= Deg(180)

\* C20: BBox(...) with a coordinate out of range, from_radius with a centre
\* out of range or a radius <= 0, and with_aspect with an aspect <= 0 raise
\* ValueError; with_aspect returns no box that leaves the range.
C20_InvalidBoxRejected ==
    /\ (geo.op = "BBox" /\ ~InRange(geo.box)) =>
        (geo.res.kind = "raise" /\ geo.res.exc = "ValueError")
    /\ (/\ geo.op = "from_radius"
        /\ \/ geo.num <= 0
           \/ geo.lat < -Deg(90) \/ geo.lat > Deg(90)
           \/ geo.lon < -Deg(180) \/ geo.lon > Deg(180)) =>
        (geo.res.kind = "raise" /\ geo.res.exc = "ValueError")
    /\ (geo.op = "with_aspect" /\ geo.num <= 0) =>
        (geo.res.kind = "raise" /\ geo.res.exc = "ValueError")
    /\ (geo.op = "with_aspect" /\ geo.res.kind = "ok") =>
        InRange(geo.res.box)

Abs(a) == IF a < 0 THEN -a ELSE a

\* the key of a box in Extent
ExtentOf(b) == Extent[<<b.minlat, b.minlon, b.maxlat, b.maxlon>>]

\* the box has its corners in order and in range
ValidBox(b) == InRange(b) /\ b.minlat < b.maxlat /\ b.minlon < b.maxlon

\* C21: with_aspect(aspect) with aspect > 0 on a valid box returns a box that
\* contains the box and shares its centre; aspect 1 returns the box itself;
\* for every other aspect the east-west extent of the result divided by its
\* north-south extent, in metres, is the aspect (to a tenth), and the axis
\* that was not deficient keeps its coordinates.
C21_AspectExtension ==
    (geo.op = "with_aspect" /\ geo.num > 0 /\ ValidBox(geo.box)) =>
        /\ geo.res.kind = "ok"
        /\ LET b == geo.box
               r == geo.res.box
               o == ExtentOf(b)
               e == ExtentOf(r)
           IN  /\ r.minlat <= b.minlat /\ b.maxlat <= r.maxlat
               /\ r.minlon <= b.minlon /\ b.maxlon <= r.maxlon
               /\ Abs((r.minlat + r.maxlat) - (b.minlat + b.maxlat)) <= 2
               /\ Abs((r.minlon + r.maxlon) - (b.minlon + b.maxlon)) <= 2
               /\ geo.num = 100 => r = b
               /\ geo.num # 100 =>
                    /\ Abs(100 * e[1] - geo.num * e[2]) * 10
                           <= geo.num * e[2]
                    /\ 100 * o[1] < geo.num * o[2] =>
                           (r.minlat = b.minlat /\ r.maxlat = b.maxlat)
                    /\ 100 * o[1] > geo.num * o[2] =>
                           (r.minlon = b.minlon /\ r.maxlon = b.maxlon)

\* C29: a MemoryCache.fetch without an etag that returns, returns the bytes
\* of the tile, whatever was fetched before.
C29_NoNilBytes ==
    (mlast.op = "fetch" /\ mlast.arg.isNone /\ mlast.res.kind = "ok") =>
        ~mlast.res.result.data.nil

\* _tile_complete: int(self._downloaded_tiles / self._total_tiles * 100.0)
Percentage(downloaded, total) == (downloaded * 100) \div total

\* C30: over all the build() calls of a RenderContext the count of
\* downloaded tiles is at most the count of tiles of the build, and every
\* percentage reported is in 0..100.
C30_ProgressBounded ==
    /\ rc.downloaded_tiles <= rc.total_tiles
    /\ \A i \in DOMAIN rc.reports :
           Percentage(rc.reports[i], rc.total_tiles) \in 0..100

\* two pasted boxes share no pixel
Disjoint(a, b) ==
    \/ a.left + a.w <= b.left \/ b.left + b.w <= a.left
    \/ a.top + a.h <= b.top \/ b.top + b.h <= a.top

\* C28: the canvas is allocated once, on the first paste; every tile is
\* pasted at ((x - ax) * w, (y - ay) * h) on a canvas of (bx - ax + 1) * w
\* by (by - ay + 1) * h pixels, inside the canvas and apart from the other
\* tiles; when all tiles are pasted they cover the canvas.
C28_Stitching ==
    /\ rc.allocs <= 1
    /\ rc.img.nil <=> rc.allocs = 0
    /\ \A i \in DOMAIN rc.boxes :
        LET b == rc.boxes[i]
            t == rc.pastes[i]
        IN  /\ b.left = (t.x - rc.map.ax) * b.w
            /\ b.top = (t.y - rc.map.ay) * b.h
            /\ b.width = (rc.map.bx - rc.map.ax + 1) * b.w
            /\ b.height = (rc.map.by - rc.map.ay + 1) * b.h
            /\ 0 <= b.left /\ b.left + b.w <= b.width
            /\ 0 <= b.top /\ b.top + b.h <= b.height
            /\ \A j \in DOMAIN rc.boxes :
                   j # i => Disjoint(b, rc.boxes[j])
    /\ rc.pc = "joined" =>
        /\ rc.boxes # <<>>
        /\ Len(rc.boxes) * rc.svc_size * rc.svc_size
               = rc.img.width * rc.img.height

\* C27: for a span end - start > 0 and a target count n, _ticks returns at
\* least n ticks, strictly increasing, all in (start, end], one step of a
\* whole number of seconds apart, the first one step after start.
C27_TickSelection ==
    (geo.op = "ticks" /\ geo.lon - geo.lat > 0) =>
        /\ geo.res.kind = "ok"
        /\ LET ticks == geo.res.ticks
               step == ticks[1] - geo.lat
           IN  /\ Len(ticks) >= geo.num
               /\ step > 0
               /\ \A i \in DOMAIN ticks :
                      /\ geo.lat < ticks[i] /\ ticks[i] <= geo.lon
                      /\ ticks[i] = geo.lat + i * step

(***************************************************************************)
(* Composer: the claims about registration, margins and placement.         *)
(***************************************************************************)
\* the decorations add_decoration may be handed: every class at every
\* placement, an unknown placement and an object without a placement
AnyDecoration ==
    {Object, Scale}
    \cup {Cartouche(Title, p, 16) : p \in Slots}
    \cup {CompassRose(p) : p \in Slots}

C23_NoSlotErrorAtRender ==
    cp.op = "build" =>
        /\ cp.res.exc # "KeyError"
        /\ \A map_img \in MapImages :
               Composer_build(cp, map_img, FALSE).res.exc
                   \notin {"KeyError", "ValueError"}

\* the largest number of a set of naturals, 0 for the empty set
Largest(S) == IF S = {} THEN 0 ELSE CHOOSE x \in S : \A y \in S : y <= x

\* the sizes, along axis k (1 width, 2 height), of the decorations of the
\* list decos that are placed in one of slots
SideSizes(decos, map_size, slots, k) ==
    {calc_size(decos[i], map_size).size[k] :
        i \in {j \in DOMAIN decos : decos[j].placement \in slots}}

\* the margins <<top, right, bottom, left>> the claim states
StatedMargins(c, map_size) ==
    LET decos == c.decorations.MARGIN
    IN  <<c.margins[1] + Largest(SideSizes(decos, map_size, NORTHERN, 2)),
          c.margins[2] + Largest(SideSizes(decos, map_size, EASTERN, 1)),
          c.margins[3] + Largest(SideSizes(decos, map_size, SOUTHERN, 2)),
          c.margins[4] + Largest(SideSizes(decos, map_size, WESTERN, 1))>>

C25_ComposedSize ==
    /\ CpNew.frame = 0
    /\ Composer_set_frame(cp.frame, 0) = [res |-> CpOk, frame |-> 0]
    /\ (cp.op = "build" /\ cp.res.kind = "ok") =>
         LET top == cp.out.margins[1]
             right == cp.out.margins[2]
             bottom == cp.out.margins[3]
             left == cp.out.margins[4]
             map_w == cp.out.map_size[1]
             map_h == cp.out.map_size[2]
         IN  /\ cp.out.size = <<left + map_w + right + 2 * cp.frame,
                                top + map_h + bottom + 2 * cp.frame>>
             /\ cp.out.map_box[1] = left + cp.frame
             /\ cp.out.map_box[2] = top + cp.frame
             /\ cp.out.map_box[3] - cp.out.map_box[1] = map_w
             /\ cp.out.map_box[4] - cp.out.map_box[2] = map_h

\* build() has composed a map of 40 x 30 with a frame of width 5, a base
\* margin and a title above the map
C25_Witness ==
    /\ cp.op = "build"
    /\ cp.res.kind = "ok"
    /\ cp.frame = 5
    /\ cp.margins = <<10, 20, 30, 40>>
    /\ cp.decorations.MARGIN = <<Cartouche(Title, "N", 16)>>
    /\ cp.out.size = <<40 + 40 + 20 + 10, 42 + 30 + 30 + 10>>
    /\ cp.out.map_box = <<45, 47, 85, 77>>

\* the box <<left, top, right, bottom>> of a composited decoration
PlacedBox(d) ==
    <<d.pos[1], d.pos[2], d.pos[1] + d.size[1], d.pos[2] + d.size[2]>>

\* box a lies inside box b
Inside(a, b) ==
    /\ b[1] <= a[1] /\ a[3] <= b[3]
    /\ b[2] <= a[2] /\ a[4] <= b[4]

\* the boxes a and b have a pixel in common
Intersects(a, b) ==
    /\ Max(a[1], b[1]) < Min(a[3], b[3])
    /\ Max(a[2], b[2]) < Min(a[4], b[4])

\* C26: for each MARGIN slot and every size of the decoration, the
\* rectangle at which build() composites a MARGIN decoration lies inside the
\* composed canvas and does not intersect the box of the frame and the map.
C26_MarginPlacement ==
    (cp.op = "build" /\ cp.res.kind = "ok") =>
        \A i \in DOMAIN cp.out.placed :
            LET d == cp.out.placed[i]
                canvas == <<0, 0, cp.out.size[1], cp.out.size[2]>>
            IN  d.area = "MARGIN" =>
                    /\ Inside(PlacedBox(d), canvas)
                    /\ ~Intersects(PlacedBox(d), cp.out.frame_box)

====
